---- MODULE Spec2Model ----
(***************************************************************************)
(* A model of neuralprophet/time_net.py (class TimeNet): quantile          *)
(* reconciliation, the forward composition, the loss and regularization    *)
(* assembly and the train / validation / test / predict steps.             *)
(*                                                                         *)
(* Numbers are integers.  A quantile is its percentage (0.5 is 50).  A     *)
(* tensor of dims (batch, time, quantiles) is a function from positions    *)
(* (one per (batch, time) pair) to a sequence of per-quantile values; the  *)
(* code's channel i (0-based, last dim) is index i + 1 of that sequence.   *)
(***************************************************************************)
EXTENDS Integers, Sequences, FiniteSets, TLC

\* ------------------------------------------------------------------ bounds
\* number of (batch, horizon) positions of a diff tensor
NPos == 1
\* raw quantile offsets (network outputs) range over -MaxDiff .. MaxDiff
MaxDiff == 1
\* n_lags ranges over 0 .. MaxLags
MaxLags == 1
\* config_model.n_forecasts, the horizon
NForecasts == 1
\* the scale of a sub-model's output ranges over 1 .. MaxComp
MaxComp == 1
\* the scale of the learned parameters ranges over 1 .. MaxParam
MaxParam == 2
\* config_train.epochs
Epochs == 2
\* the most events / holidays a configuration names
MaxEvents == 2
\* the most calls of set_compute_components / reset_compute_components in a row
MaxToggles == 4

VARIABLES
    quantiles,      \* self.quantiles: median first, then the others ascending
    diffs,          \* the tensor object passed as `diffs` (written in place by the code)
    diffs_in,       \* history: the value `diffs` held when the call started
    out,            \* the tensor returned by _compute_quantile_forecasts_from_diffs
    predict_mode,   \* the predict_mode argument of the call
    called          \* whether _compute_quantile_forecasts_from_diffs has run

qvars == <<quantiles, diffs, diffs_in, out, predict_mode, called>>

VARIABLES
    n_lags,              \* self.n_lags
    max_lags,            \* config_model.max_lags
    config_seasonality,  \* None, or [mode, periods, reg_lambda, global_local, seasonality_local_reg]
    config_trend,        \* None, or [trend_reg, n_changepoints, trend_global_local, trend_local_reg]
    config_ar,           \* [reg_lambda]
    events_dims,         \* TRUE iff self.events_dims is not None
    event_modes,         \* the modes ("additive", "multiplicative") that have an event in events_dims
    regressors,          \* TRUE iff config_regressors.regressors is not None
    lagged_regressors,   \* TRUE iff config_lagged_regressors.regressors is not None
    components_stacker,  \* mode -> feature_indices (the named ranges) of that mode's stacker
    mode,                \* the mode argument of the last forward call
    components,          \* the dict `components` filled by forward (lines 549-641)
    prediction,          \* the tensor forward passes to quantile reconciliation (line 650)
    stationarized_lags,  \* the input of the AR network (line 628)
    forecast,            \* prediction_with_quantiles, forward's first result
    fwd_done,            \* whether forward has been called
    fwd_inp,             \* the batch of the last forward call
    unstacked,           \* the component names the last forward call passed to unstack
    fwd_raised,          \* whether the last forward call raised instead of returning
    returned_components  \* forward's second result: None, or the decomposition

cfgvars == <<n_lags, max_lags, config_seasonality, config_trend, config_ar, events_dims,
             event_modes, regressors, lagged_regressors, components_stacker>>

VARIABLES
    params,        \* the learned parameters (self.parameters()), one scale for all of them
    progress,      \* the progress argument of _add_batch_regularizations
    loss_in,       \* the loss argument of _add_batch_regularizations
    reg_terms,     \* history: the value each `reg_loss +=` statement added, by term
    reg_result     \* _add_batch_regularizations: not called, raised, or returned (loss, reg_loss)

rvars == <<progress, loss_in, reg_terms, reg_result>>

VARIABLES
    train_progress,  \* self.train_progress: None until the first training_step sets it
    reg_enabled,     \* self.reg_enabled
    finding_lr,      \* self.finding_lr
    step,            \* the last step run: its kind, batch, calls in order, and results
    earlier          \* history: the validation / test / predict step run before `step`

svars == <<train_progress, reg_enabled, finding_lr, step, earlier>>

VARIABLES
    ctor_args,     \* the arguments of TimeNet(...): config_trend, config_seasonality, events
    ctor_result    \* __init__: not called, raised ValueError, or the fields it set

cvars == <<ctor_args, ctor_result>>

VARIABLES
    include_components,       \* self.include_components
    prev_include_components,  \* self.prev_include_components: unset (None) until the first set
    toggles                   \* history: the set / reset calls so far, in order

tvars == <<include_components, prev_include_components, toggles>>

VARIABLES
    newer_samples_weight,  \* config_train.newer_samples_weight, a whole number >= 1
    newer_samples_start,   \* config_train.newer_samples_start, in units of 1 / TimeUnit
    loss_args,             \* the arguments (time, predicted, targets) of the loss_func call
    loss_result            \* loss_func: not called, raised, or what it computed and returned

wvars == <<newer_samples_weight, newer_samples_start, loss_args, loss_result>>

VARIABLES
    covar_weights,  \* self.covar_weights: unset (None) until set_covar_weights stores the attributions
    stacker_error   \* whether the last set_components_stacker call raised AssertionError

mvars == <<covar_weights, stacker_error>>
fvars == <<mode, components, prediction, stationarized_lags, forecast, fwd_done,
           fwd_inp, unstacked, fwd_raised, returned_components>>

\* ------------------------------------------------------- helper arithmetic
Max2(a, b) == IF a >= b THEN a ELSE b

\* Python's None for an optional number is the empty tuple, a number x is <<x>>;
\* None for an optional configuration object is the record NoneCfg.
None == <<>>
Some(x) == <<x>>
NoneCfg == [none |-> TRUE]
IsNoneCfg(c) == "none" \in DOMAIN c

\* config_seasonality.mode, or "none" when no seasonality is configured
SeasonMode(cs) == IF IsNoneCfg(cs) THEN "none" ELSE cs.mode
season_mode == SeasonMode(config_seasonality)
\* the names of config_seasonality.periods, none when no seasonality is configured
SeasonPeriods(cs) == IF IsNoneCfg(cs) THEN {} ELSE cs.periods
season_periods == SeasonPeriods(config_seasonality)

\* ------------------------------------------------ quantile reconciliation
\* The quantile lists the model configuration produces: index 0 is the median
\* (time_net.py:423), the remaining quantiles follow in ascending order.
QuantileConfigs ==
    { <<50>>,
      <<50, 10>>, <<50, 90>>,
      <<50, 10, 90>>, <<50, 10, 30>>, <<50, 70, 90>>,
      <<50, 10, 30, 90>>, <<50, 10, 70, 90>>, <<50, 70, 80, 90>>, <<50, 10, 20, 30>> }

\* values of the median channel of a diff tensor
MedianVals == {-1, 2}
DiffVals == (0 - MaxDiff) .. MaxDiff
Positions == 1 .. NPos

\* all rows <<median, d_1, .., d_{n-1}>> for n quantiles
DiffRows(n) ==
    { r \in [1 .. n -> MedianVals \cup DiffVals] :
        /\ r[1] \in MedianVals
        /\ \A i \in 2 .. n : r[i] \in DiffVals }

DiffTensors(n) == [Positions -> DiffRows(n)]

\* lines 414-417: first 0-based index whose quantile exceeds 0.5, else len
quantiles_divider_index(qs) ==
    IF \E i \in 1 .. Len(qs) : qs[i] > 50
    THEN (CHOOSE i \in 1 .. Len(qs) :
             /\ qs[i] > 50
             /\ \A j \in 1 .. (i - 1) : ~(qs[j] > 50)) - 1
    ELSE Len(qs)

\* variant of UpperCorrected without the clamp at zero of lines 428-430
RECURSIVE UpperCorrected_noclamp(_, _)
UpperCorrected_noclamp(u, k) ==
    IF k = 1 THEN u[1]
    ELSE Max2(u[k], UpperCorrected_noclamp(u, k - 1))

\* lines 428-434: upper offsets u (0-based 0..n-1) after the in-place loop:
\* u[0] = max(0, u[0]); u[i+1] = max(u[i+1], u[i]) for i = 0..n-2.
\* Entry k (1-based) of the result.
RECURSIVE UpperCorrected(_, _)
UpperCorrected(u, k) ==
    IF k = 1 THEN Max2(0, u[1])
    ELSE Max2(u[k], UpperCorrected(u, k - 1))

\* variant of LowerCorrected without the backward loop of lines 445-448
LowerCorrected_noscan(l, k) == Max2(0, l[k])

\* lines 442-448: lower offsets l (0-based 0..n-1) after the in-place loop:
\* l[-1] = max(0, l[-1]); l[i-1] = max(l[i-1], l[i]) for i = n-1..1.
RECURSIVE LowerCorrected(_, _)
LowerCorrected(l, k) ==
    IF k = Len(l) THEN Max2(0, l[Len(l)])
    ELSE Max2(l[k], LowerCorrected(l, k + 1))

\* the slice row[a..b] (1-based, inclusive) as a sequence
Slice(row, a, b) == [i \in 1 .. (b - a + 1) |-> row[a + i - 1]]

\* variant of ReconcileRow that leaves the median channel of `out` at the
\* zero torch.zeros_like gave it (line 423 dropped)
ReconcileRow_nomedian(qs, row, pm) ==
    IF Len(qs) <= 1 THEN [out |-> [i \in 1 .. Len(row) |-> 0], diffs |-> row]
    ELSE
      LET d  == quantiles_divider_index(qs)
          n  == Len(row)
          up == IF pm /\ n - d > 0
                THEN [k \in 1 .. (n - d) |-> UpperCorrected(Slice(row, d + 1, n), k)]
                ELSE Slice(row, d + 1, n)
          lo == IF pm /\ d - 1 > 0
                THEN [k \in 1 .. (d - 1) |-> LowerCorrected(Slice(row, 2, d), k)]
                ELSE Slice(row, 2, d)
      IN [out   |-> [i \in 1 .. n |->
                        IF i = 1 THEN 0
                        ELSE IF i <= d THEN (0 - lo[i - 1]) + row[1]
                        ELSE up[i - d] + row[1]],
          diffs |-> [i \in 1 .. n |->
                        IF i = 1 THEN row[1]
                        ELSE IF i <= d THEN lo[i - 1]
                        ELSE up[i - d]]]

\* One (batch, horizon) position of the call, lines 411-454.  Returns the
\* row of `out` and the row of `diffs` as the call leaves it: the slices
\* upper_quantile_diffs and lower_quantile_diffs are views of diffs, so the
\* in-place corrections of predict mode are written into diffs itself.
ReconcileRow(qs, row, pm) ==
    IF Len(qs) <= 1 THEN [out |-> row, diffs |-> row]
    ELSE
      LET d       == quantiles_divider_index(qs)          \* 0-based
          n       == Len(row)                             \* diffs.shape[-1]
          n_upper == n - d
          n_lower == d - 1
          upRaw   == Slice(row, d + 1, n)                 \* diffs[:, :, d:]
          loRaw   == Slice(row, 2, d)                     \* diffs[:, :, 1:d]
          up      == IF pm /\ n_upper > 0
                     THEN [k \in 1 .. n_upper |-> UpperCorrected(upRaw, k)]
                     ELSE upRaw
          lo      == IF pm /\ n_lower > 0
                     THEN [k \in 1 .. n_lower |-> LowerCorrected(loRaw, k)]
                     ELSE loRaw
          newDiffs == [i \in 1 .. n |->
                         IF i = 1 THEN row[1]
                         ELSE IF i <= d THEN lo[i - 1]
                         ELSE up[i - d]]
          newOut  == [i \in 1 .. n |->
                         IF i = 1 THEN row[1]                         \* line 423
                         ELSE IF i <= d THEN (0 - lo[i - 1]) + row[1] \* lines 449-452
                         ELSE up[i - d] + row[1]]                     \* lines 435-437
      IN [out |-> newOut, diffs |-> newDiffs]

\* variant of compute_quantile_forecasts_from_diffs that corrects crossing
\* offsets in train mode too
compute_quantile_forecasts_from_diffs_clamped(qs, t, pm) ==
    [out   |-> [p \in DOMAIN t |-> ReconcileRow(qs, t[p], TRUE).out],
     diffs |-> [p \in DOMAIN t |-> ReconcileRow(qs, t[p], TRUE).diffs]]

\* the whole tensor: every operation of the method is elementwise in (batch, time)
compute_quantile_forecasts_from_diffs(qs, t, pm) ==
    [out   |-> [p \in DOMAIN t |-> ReconcileRow(qs, t[p], pm).out],
     diffs |-> [p \in DOMAIN t |-> ReconcileRow(qs, t[p], pm).diffs]]


\* --------------------------------------------------------- forward: tensors
Modes == {"train", "val", "test", "predict"}

Zeros(W, Q) == [w \in 1 .. W |-> [q \in 1 .. Q |-> 0]]
TAdd(a, b) == [w \in DOMAIN a |-> [q \in DOMAIN a[w] |-> a[w][q] + b[w][q]]]
TMul(a, b) == [w \in DOMAIN a |-> [q \in DOMAIN a[w] |-> a[w][q] * b[w][q]]]
\* variant of HorizonSlice that forgets the offset n_lags: t[:, : W - n, :]
HorizonSlice_fromstart(t, n, W) == [h \in 1 .. (W - n) |-> t[h]]

\* t[:, n : W, :]
HorizonSlice(t, n, W) == [h \in 1 .. (W - n) |-> t[n + h]]

RECURSIVE SumSeq(_)
SumSeq(xs) == IF Len(xs) = 0 THEN 0 ELSE xs[1] + SumSeq(Tail(xs))

\* The output of an external sub-model (trend, seasonality, future regressors)
\* on one batch row: a (window, quantiles) tensor of scale v that differs
\* between window positions and between quantiles.
CompTensor(v, W, Q) == [w \in 1 .. W |-> [q \in 1 .. Q |-> v * (w + q)]]
CompVals == 1 .. MaxComp

\* the event features of a batch row (one feature per mode) and the learned
\* event parameters, dims (n_quantiles, n_features) (lines 245-252)
EventFeatures(v, W) == [w \in 1 .. W |-> <<v + w - 1>>]
event_params(kind, Q) == [q \in 1 .. Q |-> IF kind = "additive" THEN <<q>> ELSE <<q + 1>>]

\* lines 473-479 with indices = None: sum over features of features * params
scalar_features_effects(features, eparams) ==
    [w \in DOMAIN features |->
        [q \in DOMAIN eparams |->
            SumSeq([f \in DOMAIN features[w] |-> features[w][f] * eparams[q][f]])]]

\* the raw lags of a batch row, dims (n_lags)
LagsInput(v, n) == [l \in 1 .. n |-> v + l]
\* ar_net with ar_layers = []: one bias-free linear layer n_lags -> n_forecasts * quantiles
\* (lines 261-273); the weight of output (h, q) on lag l
ar_net_weight(h, q, l) == h + q + l - 2
\* lines 492-495
auto_regression(lags, H, Q) ==
    [h \in 1 .. H |-> [q \in 1 .. Q |->
        SumSeq([l \in DOMAIN lags |-> ar_net_weight(h, q, l) * lags[l]])]]

\* covar_net with no hidden layer on one covariate of one lag (lines 277-290)
covar_net_weight(h, q) == h + 2 * q
\* lines 510-517
forward_covar_net(c, H, Q) == [h \in 1 .. H |-> [q \in 1 .. Q |-> covar_net_weight(h, q) * c]]

\* --------------------------------------------------------- forward: the call
\* The components forward evaluates, by the guards of lines 569-635.
EvalSeason(sm, periods) == sm # "none" /\ periods # {}                  \* line 569
EvalAddEvents(ev, fi) == ev /\ "additive_events" \in fi                \* lines 583-584
EvalMultEvents(ev, fi) == ev /\ "multiplicative_events" \in fi         \* lines 583, 591
EvalAddRegressors(fi) == "additive_regressors" \in fi                  \* line 604
EvalMultRegressors(fi) == "multiplicative_regressors" \in fi           \* line 611
EvalLags(fi) == "lags" \in fi                                          \* line 621
EvalCovariates(lr) == lr                                               \* line 635

\* components_stacker[mode] is None: no stacker has been set for the mode
\* (lines 140-145); a stacker is the set of the names in its feature_indices
NoStacker == {"None"}

\* torch's nan as a tensor element
NaN == "nan"

\* dict update: d[k] = v
Put(d, k, v) == [x \in DOMAIN d \cup {k} |-> IF x = k THEN v ELSE d[x]]

\* the periodic terms of config_seasonality.periods, the keys of seasonalities_input
SeasonNames == {"yearly", "weekly"}
\* seasonality.compute_fourier(features, name) on the horizon slice of a batch of scale v
compute_fourier(v, name, n, W, Q) ==
    [h \in 1 .. (W - n) |-> [q \in 1 .. Q |->
        (IF name = "yearly" THEN 1 ELSE 2) * v * (n + h + q)]]

\* the entries of line 694, one per periodic term of seasonality_input
SeasonEntries(v, n, W, Q, periods) ==
    [k \in (IF "yearly" \in periods THEN {"season_yearly"} ELSE {})
           \cup (IF "weekly" \in periods THEN {"season_weekly"} ELSE {}) |->
        compute_fourier(v, IF k = "season_yearly" THEN "yearly" ELSE "weekly", n, W, Q)]

\* dict update with every entry of e
PutAll(d, e) == [x \in DOMAIN d \cup DOMAIN e |-> IF x \in DOMAIN e THEN e[x] ELSE d[x]]

\* lines 728-735: the loop over events_dims subscripts the features of an
\* event's mode, which are None when forward did not unstack them
EventFeaturesMissing(cfg, present) ==
    \/ "additive" \in cfg.event_modes /\ "additive_events" \notin present
    \/ "multiplicative" \in cfg.event_modes /\ "multiplicative_events" \notin present

\* lines 703-716 for the one lagged regressor x of the model: covar_weights
\* holds the sum of its attributions per forecast, which is also the sum over
\* all regressors, so its share is a / a: 1, and nan when the sum is 0
LaggedRegressorShare(all_covariates, a) ==
    IF a = 0
    THEN [h \in DOMAIN all_covariates |-> [q \in DOMAIN all_covariates[h] |-> NaN]]
    ELSE all_covariates

\* compute_components, lines 689-763, on one batch row.  present holds the
\* names whose *_input argument is not None, raw is components_raw, inp the
\* batch.  The model has one lagged regressor, one event per mode in
\* event_modes, and one future regressor per mode.  cfg.covar_weights is
\* self.covar_weights, None while set_covar_weights has not stored it: line
\* 703 then raises AttributeError.
compute_components(cfg, present, raw, inp) ==
    LET Q  == Len(cfg.quantiles)
        n  == cfg.n_lags
        W  == cfg.n_lags + NForecasts
        d0 == Put(<<>>, "trend", HorizonSlice(raw["trend"], n, W))              \* line 691
        d1 == IF ~cfg.config_trend_none /\ "seasonalities" \in present          \* line 692
              THEN PutAll(d0, SeasonEntries(inp.season, n, W, Q, cfg.season_periods)) ELSE d0
        d2 == IF n > 0 /\ "lags" \in present                                    \* line 697
              THEN Put(d1, "ar", raw["lags"]) ELSE d1
        covar == cfg.lagged_regressors /\ "lagged_regressors" \in present      \* line 699
        d3 == IF covar /\ cfg.covar_weights # None
              THEN Put(d2, "lagged_regressor_x",
                       LaggedRegressorShare(raw["covariates"], cfg.covar_weights[1]))
              ELSE d2
        \* events, lines 719-739
        d4 == IF cfg.events_dims /\ "additive_events" \in present
              THEN Put(d3, "events_additive", HorizonSlice(raw["additive_events"], n, W))
              ELSE d3
        d5 == IF cfg.events_dims /\ "multiplicative_events" \in present
              THEN Put(d4, "events_multiplicative",
                       HorizonSlice(raw["multiplicative_events"], n, W))
              ELSE d4
        d6 == IF cfg.events_dims /\ "additive" \in cfg.event_modes
                 /\ "additive_events" \in present
              THEN Put(d5, "event_a",
                       scalar_features_effects(
                           HorizonSlice(EventFeatures(inp.add_events, W), n, W),
                           event_params("additive", Q)))
              ELSE d5
        d7 == IF cfg.events_dims /\ "multiplicative" \in cfg.event_modes
                 /\ "multiplicative_events" \in present
              THEN Put(d6, "event_m",
                       scalar_features_effects(
                           HorizonSlice(EventFeatures(inp.mult_events, W), n, W),
                           event_params("multiplicative", Q)))
              ELSE d6
        \* future regressors, lines 740-762
        d8 == IF cfg.regressors /\ "additive_regressors" \in present
              THEN Put(Put(d7, "future_regressors_additive",
                           HorizonSlice(raw["additive_regressors"], n, W)),
                       "future_regressor_a",
                       HorizonSlice(CompTensor(inp.add_regressors, W, Q), n, W))
              ELSE d7
        d9 == IF cfg.regressors /\ "multiplicative_regressors" \in present
              THEN Put(Put(d8, "future_regressors_multiplicative",
                           HorizonSlice(raw["multiplicative_regressors"], n, W)),
                       "future_regressor_m",
                       HorizonSlice(CompTensor(inp.mult_regressors, W, Q), n, W))
              ELSE d8
    IN IF \/ covar /\ cfg.covar_weights = None                       \* AttributeError, line 703
          \/ cfg.events_dims /\ EventFeaturesMissing(cfg, present)   \* TypeError, lines 732 / 735
       THEN [raised |-> TRUE, components |-> <<>>]
       ELSE [raised |-> FALSE, components |-> d9]

\* variant of ReturnedComponents that returns the decomposition always
ReturnedComponents_always(inc, dec) == Some(dec)

\* lines 658-672: forward's second result
ReturnedComponents(inc, dec) == IF inc THEN Some(dec) ELSE None

\* the names forward passes to unstack (lines 540, 570, 585, 592, 605, 612,
\* 622, 636) when no call raises
UnstackCalls(cfg, fi) ==
    {"time"}
    \cup (IF EvalSeason(cfg.season_mode, cfg.season_periods) THEN {"seasonalities"} ELSE {})
    \cup (IF EvalAddEvents(cfg.events_dims, fi) THEN {"additive_events"} ELSE {})
    \cup (IF EvalMultEvents(cfg.events_dims, fi) THEN {"multiplicative_events"} ELSE {})
    \cup (IF EvalAddRegressors(fi) THEN {"additive_regressors"} ELSE {})
    \cup (IF EvalMultRegressors(fi) THEN {"multiplicative_regressors"} ELSE {})
    \cup (IF EvalLags(fi) THEN {"lags"} ELSE {})
    \cup (IF EvalCovariates(cfg.lagged_regressors) THEN {"lagged_regressors"} ELSE {})

\* variant of NonstationaryAtLags that leaves out the multiplicative accumulator
NonstationaryAtLags_additiveonly(trend, an, mn, nl) ==
    [l \in 1 .. nl |-> trend[l][1] + an[l][1]]

\* lines 623-627: channel 0 of trend + additive nonstationary
\* + trend.detach() * multiplicative nonstationary at window positions 0..n_lags-1
NonstationaryAtLags(trend, an, mn, nl) ==
    [l \in 1 .. nl |-> trend[l][1] + an[l][1] + trend[l][1] * mn[l][1]]

\* lines 540-674 on one batch row.  cfg holds the configuration fields read,
\* fi is components_stacker[mode].feature_indices, inp the scales of the
\* sub-model outputs and of the lag / covariate inputs of this batch.
\* unstack is the stacker's: called with a name that is not in fi it either
\* raises or returns some tensor, as inp.absent_unstack says.  While the mode
\* has no stacker, line 540 raises AttributeError before anything is unstacked.
forward(cfg, fi, inp, md) ==
    LET Q  == Len(cfg.quantiles)
        H  == NForecasts
        W  == cfg.n_lags + H                                 \* time_input.shape[1]
        trend == CompTensor(inp.trend, W, Q)                 \* line 564
        c0 == Put(<<>>, "trend", trend)                      \* line 565
        \* seasonalities, lines 569-578
        s   == CompTensor(inp.season, W, Q)
        an1 == IF EvalSeason(cfg.season_mode, cfg.season_periods) /\ cfg.season_mode = "additive"
               THEN TAdd(Zeros(W, Q), s) ELSE Zeros(W, Q)
        mn1 == IF EvalSeason(cfg.season_mode, cfg.season_periods) /\ cfg.season_mode = "multiplicative"
               THEN TAdd(Zeros(W, Q), s) ELSE Zeros(W, Q)
        c1  == IF EvalSeason(cfg.season_mode, cfg.season_periods) THEN Put(c0, "seasonalities", s) ELSE c0
        \* events, lines 583-599
        ae  == scalar_features_effects(EventFeatures(inp.add_events, W), event_params("additive", Q))
        an2 == IF EvalAddEvents(cfg.events_dims, fi) THEN TAdd(an1, ae) ELSE an1
        c2  == IF EvalAddEvents(cfg.events_dims, fi) THEN Put(c1, "additive_events", ae) ELSE c1
        me  == scalar_features_effects(EventFeatures(inp.mult_events, W), event_params("multiplicative", Q))
        mn2 == IF EvalMultEvents(cfg.events_dims, fi) THEN TAdd(mn1, me) ELSE mn1
        c3  == IF EvalMultEvents(cfg.events_dims, fi) THEN Put(c2, "multiplicative_events", me) ELSE c2
        \* future regressors, lines 604-617
        ar  == CompTensor(inp.add_regressors, W, Q)
        an3 == IF EvalAddRegressors(fi) THEN TAdd(an2, ar) ELSE an2
        c4  == IF EvalAddRegressors(fi) THEN Put(c3, "additive_regressors", ar) ELSE c3
        mr  == CompTensor(inp.mult_regressors, W, Q)
        mn3 == IF EvalMultRegressors(fi) THEN TAdd(mn2, mr) ELSE mn2
        c5  == IF EvalMultRegressors(fi) THEN Put(c4, "multiplicative_regressors", mr) ELSE c4
        \* lags, lines 621-631: channel 0 of the first n_lags window positions
        nonstationary_components == NonstationaryAtLags(trend, an3, mn3, cfg.n_lags)
        lags_input == LagsInput(inp.lags, cfg.n_lags)
        stat_lags == [l \in 1 .. cfg.n_lags |-> lags_input[l] - nonstationary_components[l]]
        lags == auto_regression(stat_lags, H, Q)
        ad1 == IF EvalLags(fi) THEN TAdd(Zeros(H, Q), lags) ELSE Zeros(H, Q)
        c6  == IF EvalLags(fi) THEN Put(c5, "lags", lags) ELSE c5
        \* lagged regressors, lines 635-641
        covariates == forward_covar_net(inp.covariates, H, Q)
        ad2 == IF EvalCovariates(cfg.lagged_regressors) THEN TAdd(ad1, covariates) ELSE ad1
        c7  == IF EvalCovariates(cfg.lagged_regressors) THEN Put(c6, "covariates", covariates) ELSE c6
        \* lines 644-650
        predictions_nonstationary ==
            TAdd(TAdd(HorizonSlice(trend, cfg.n_lags, W), HorizonSlice(an3, cfg.n_lags, W)),
                 TMul(HorizonSlice(trend, cfg.n_lags, W), HorizonSlice(mn3, cfg.n_lags, W)))
        pred == TAdd(predictions_nonstationary, ad2)
        \* unstack of a range the schema does not hold, lines 570 and 636
        raise_season == /\ EvalSeason(cfg.season_mode, cfg.season_periods) /\ "seasonalities" \notin fi
                        /\ inp.absent_unstack = "raises"
        raise_covar  == /\ EvalCovariates(cfg.lagged_regressors) /\ "lagged_regressors" \notin fi
                        /\ inp.absent_unstack = "raises"
        no_stacker == fi = NoStacker                                          \* line 540
        calls == IF no_stacker THEN {}
                 ELSE IF raise_season THEN {"time", "seasonalities"} ELSE UnstackCalls(cfg, fi)
        \* lines 658-672
        dec == compute_components(cfg, calls, c7, inp)
    IN [components |-> c7,
        prediction |-> pred,
        stationarized_lags |-> IF EvalLags(fi) THEN stat_lags ELSE <<>>,
        \* lines 653-655
        forecast |-> compute_quantile_forecasts_from_diffs(cfg.quantiles, pred, md # "train").out,
        unstacked |-> calls,
        raised |-> \/ no_stacker \/ raise_season \/ raise_covar
                   \/ (cfg.include_components /\ dec.raised),
        returned_components |->
            IF no_stacker \/ (cfg.include_components /\ dec.raised) THEN None
            ELSE ReturnedComponents(cfg.include_components, dec.components)]

\* ------------------------------------------------- loss and regularization
\* progress is a fraction [num, den] with den > 0
FracLE(a, b) == a.num * b.den <= b.num * a.den
FracLT(a, b) == a.num * b.den < b.num * a.den

\* torch.clamp(x, lo, hi)
Clamp(x, lo, hi) == IF x < lo THEN lo ELSE IF x > hi THEN hi ELSE x

\* Real numbers are fixed-point: the value 1.0 is One, and the cosine is
\* evaluated at the finer scale Fine.
One == 1000000
Fine == 100 * One
\* math.pi at scale Fine
PiFine == 314159265

\* the product a * b of two numbers at scale Fine, the factors split in halves
\* so that no intermediate product leaves the integer range
MulFine(a, b) ==
    CHOOSE r \in { (x \div 10000) * (y \div 10000)
                   + ((x \div 10000) * (y % 10000) + (x % 10000) * (y \div 10000)
                      + ((x % 10000) * (y % 10000)) \div 10000) \div 10000 :
                   x \in {a}, y \in {b} } : TRUE

\* the divisors (2k - 1) * 2k of the power series of the cosine
CosDivisors == <<2, 12, 30, 56, 90, 132, 182>>

\* the series 1 - z2/2 * (1 - z2/12 * (1 - z2/30 * ...)) from its k-th factor
\* inwards, where acc is the value of the factors after the k-th
RECURSIVE CosSeries(_, _, _)
CosSeries(z2, k, acc) ==
    IF k = 0 THEN acc
    ELSE CHOOSE r \in { CosSeries(z2, k - 1, Fine - MulFine(z2, a) \div CosDivisors[k]) :
                        a \in {acc} } : TRUE

\* cos(z) for 0 <= z <= pi / 2 at scale Fine, by its power series up to z^14
CosFine(z) ==
    CHOOSE r \in { CosSeries(z2, Len(CosDivisors), Fine) : z2 \in {MulFine(z, z)} } : TRUE

\* lines 934-935: 0.5 * cos(pi * (x - 1)) + 0.5 = (1 - cos(pi * x)) / 2 at
\* x = xn / xd in [0, 1], rounded to the scale One.  Above the midpoint the
\* cosine is evaluated at 1 - x (cos(pi * x) = -cos(pi * (1 - x))).  The curve
\* is positive for x > 0.  The same curve is the ramp of get_reg_delay_weight.
HalfCosine(xn, xd) ==
    IF xn <= 0 THEN 0
    ELSE IF xn >= xd THEN One
    ELSE LET x == ((xn * 10000) \div xd) * 10000 + (((xn * 10000) % xd) * 10000) \div xd
             lower == 2 * xn <= xd
             c == CosFine(MulFine(PiFine, IF lower THEN x ELSE Fine - x))
             hf == IF lower THEN (Fine - c) \div 2 ELSE (Fine + c) \div 2
         IN CHOOSE r \in { IF v < 1 THEN 1 ELSE v : v \in {(hf + 50) \div 100} } : TRUE

\* the two thresholds of get_reg_delay_weight, as test_reg_delay passes them
\* (test_unit.py:521): 0.5 and 0.8
reg_start_pct == [num |-> 1, den |-> 2]
reg_full_pct == [num |-> 4, den |-> 5]

\* the delay weight 1.0
FullWeight == One

\* config_train.get_reg_delay_weight(progress) at scale One: 0 up to
\* reg_start_pct, FullWeight from reg_full_pct on, and in between the
\* half-cosine ramp over (progress - reg_start_pct) / (reg_full_pct -
\* reg_start_pct) that the values of test_reg_delay lie on (0.5 at the
\* midpoint).  _add_batch_regularizations reads only its sign.
get_reg_delay_weight(pr) ==
    LET xn == (pr.num * reg_start_pct.den - reg_start_pct.num * pr.den)
              * (reg_full_pct.den * reg_start_pct.den)
        xd == (reg_full_pct.num * reg_start_pct.den - reg_start_pct.num * reg_full_pct.den)
              * (pr.den * reg_start_pct.den)
    IN IF xn <= 0 THEN 0
       ELSE IF xn < xd THEN HalfCosine(xn, xd)
       ELSE FullWeight

\* The regularizers of neuralprophet.utils and of the component configs are
\* functions of the learned parameters; p is the scale of the parameters.
ArRegSum(p) == p * NForecasts            \* torch.sum(config_ar.regularize(ar_weights))
reg_func_trend(p) == 2 * p
reg_func_season(name, p) == 3 * p
reg_func_events(p) == 5 * p
reg_func_regressors(p) == 7 * p
reg_func_trend_glocal(p, local_reg) == local_reg * 11 * p
reg_func_seasonality_glocal(p, local_reg) == local_reg * 13 * p

RECURSIVE SumOver(_, _)
\* the sum of f[x] over the finite set S
SumOver(f, S) ==
    IF S = {} THEN 0
    ELSE LET x == CHOOSE y \in S : TRUE IN f[x] + SumOver(f, S \ {x})

\* Python truthiness of a local-regularization weight (None, False and 0 are falsy)
Truthy(x) == x # 0

TermNames == {"ar", "trend", "season", "events", "regressors", "trend_local", "season_local"}

\* no `reg_loss +=` has run
NoTerms == [n \in TermNames |-> 0]

\* variant of TrendLocalApplies that ignores the global / local mode
TrendLocalApplies_anymode(ct) == (~IsNoneCfg(ct)) /\ Truthy(ct.trend_local_reg)

\* lines 994-995: the guard of the local trend term
TrendLocalApplies(ct) ==
    (~IsNoneCfg(ct)) /\ ct.trend_global_local = "local" /\ Truthy(ct.trend_local_reg)

\* variant of SeasonLocalApplies that reads the mode as "not global"
SeasonLocalApplies_glocalonly(cs) ==
    (~IsNoneCfg(cs)) /\ cs.global_local = "glocal" /\ Truthy(cs.seasonality_local_reg)

\* lines 1001-1005: the guard of the local seasonality term
SeasonLocalApplies(cs) ==
    (~IsNoneCfg(cs)) /\ cs.global_local \in {"local", "glocal"} /\ Truthy(cs.seasonality_local_reg)

\* variant of GatedTerms that ignores the delay weight
GatedApplies_always(delay_weight) == TRUE

\* variant of GatedApplies that lets a zero delay weight through
GatedApplies_nonnegative(delay_weight) == delay_weight >= 0

\* line 958: the gate of the delayed terms
GatedApplies(delay_weight) == delay_weight > 0

\* lines 955-1011.  cfg holds the configuration read, p the parameter scale.
\* Returns raised = TRUE when the code reads ar_weights of a model built
\* without ar_net (n_lags = 0, lines 261 and 311, 961), dereferences a missing
\* config_trend (line 966) or reads the season_params of a seasonality with no
\* periods (line 1007); else the value each `reg_loss +=` added and the two
\* results.  seasonality.season_dims is None exactly when periods is empty.
add_batch_regularizations(cfg, p, loss, pr) ==
    LET delay_weight == get_reg_delay_weight(pr)                                  \* line 955
        gated == GatedApplies(delay_weight)                                       \* line 958
        ct == cfg.config_trend
        cs == cfg.config_seasonality
        \* lines 960-963
        t_ar == IF gated /\ cfg.max_lags > 0 /\ cfg.config_ar.reg_lambda # None
                THEN cfg.config_ar.reg_lambda[1] * (ArRegSum(p) \div NForecasts)
                ELSE 0
        \* lines 966-972
        t_trend == IF gated /\ ~IsNoneCfg(ct)
                      /\ ct.n_changepoints > 0 /\ ct.trend_reg # None /\ ct.trend_reg[1] > 0
                   THEN ct.trend_reg[1] * reg_func_trend(p)
                   ELSE 0
        \* lines 975-980
        t_season == IF gated /\ ~IsNoneCfg(cs) /\ cs.periods # {}
                       /\ cs.reg_lambda # None /\ cs.reg_lambda[1] > 0
                    THEN SumOver([n \in cs.periods |-> cs.reg_lambda[1] * reg_func_season(n, p)],
                                 cs.periods)
                    ELSE 0
        \* lines 983-985
        t_events == IF gated /\ cfg.events THEN reg_func_events(p) ELSE 0
        \* lines 988-990
        t_regressors == IF gated /\ cfg.regressors THEN reg_func_regressors(p) ELSE 0
        \* lines 992-999
        t_trend_local == IF TrendLocalApplies(ct)
                         THEN reg_func_trend_glocal(p, ct.trend_local_reg) ELSE 0
        \* lines 1001-1009
        t_season_local == IF SeasonLocalApplies(cs)
                          THEN reg_func_seasonality_glocal(p, cs.seasonality_local_reg) ELSE 0
        reg_loss == t_ar + t_trend + t_season + t_events + t_regressors
                    + t_trend_local + t_season_local
        raise_ar == /\ gated /\ cfg.max_lags > 0 /\ cfg.config_ar.reg_lambda # None
                    /\ cfg.n_lags = 0                                             \* line 961
        raise_trend == gated /\ IsNoneCfg(ct)                                     \* line 966
        raise_season_params == SeasonLocalApplies(cs) /\ cs.periods = {}          \* line 1007
    IN IF raise_ar \/ raise_trend \/ raise_season_params
       THEN [raised |-> TRUE]
       ELSE [raised |-> FALSE,
             terms |-> [ar |-> t_ar, trend |-> t_trend, season |-> t_season,
                        events |-> t_events, regressors |-> t_regressors,
                        trend_local |-> t_trend_local, season_local |-> t_season_local],
             loss |-> loss + reg_loss,                                            \* line 1010
             reg_loss |-> reg_loss]

Abs(x) == IF x < 0 THEN 0 - x ELSE x

\* the resolution of the loss: config_train.loss_func is the absolute error
\* times LossScale * NForecasts
LossScale == 1000

\* config_train.loss_func(predicted, targets), elementwise and without
\* reduction; a multiple of NForecasts so that the mean of line 779 of an
\* unweighted loss is exact
ElementLoss(pred, target) == LossScale * NForecasts * Abs(pred - target)

\* normalized time 1.0 (the newest sample) in the units times are counted in
TimeUnit == 12

\* the product of a loss value and a weight at scale One
MulWeight(a, w) ==
    CHOOSE r \in { (x \div 1000) * (y \div 1000)
                   + ((x \div 1000) * (y % 1000) + (x % 1000) * (y \div 1000)
                      + ((x % 1000) * (y % 1000)) \div 1000) \div 1000 :
                   x \in {a}, y \in {w} } : TRUE

\* variant of get_time_based_sample_weight without the division by end_w of line 938
get_time_based_sample_weight_undivided(end_w, start_t, t) ==
    [h \in DOMAIN t |->
        <<One + HalfCosine(Clamp(t[h] - start_t, 0, TimeUnit - start_t),
                           TimeUnit - start_t) * (end_w - 1)>>]

\* lines 929-941 on one batch row: t holds the times of the horizon steps;
\* the result has one weight (at scale One) per step and a last dimension of
\* size 1 for the quantiles (line 940)
get_time_based_sample_weight(end_w, start_t, t) ==
    [h \in DOMAIN t |->
        LET time == Clamp(t[h] - start_t, 0, TimeUnit - start_t)         \* lines 932-933
            c    == HalfCosine(time, TimeUnit - start_t)                 \* lines 934-935
        IN <<(One + c * (end_w - 1) + end_w \div 2) \div end_w>>]        \* line 938, rounded

\* time[:, self.n_lags :]
TimeSlice(time, nl) == [h \in 1 .. (Len(time) - nl) |-> time[nl + h]]

\* variant of WeightedLoss that weights the median channel only
WeightedLoss_medianonly(cfg, time, predicted, targets) ==
    LET raw == [h \in DOMAIN predicted |-> [q \in DOMAIN predicted[h] |->
                   ElementLoss(predicted[h][q], targets[h])]]
        w == get_time_based_sample_weight(cfg.newer_samples_weight,
                                          cfg.newer_samples_start, TimeSlice(time, cfg.n_lags))
    IN IF cfg.newer_samples_weight > 1
       THEN [h \in DOMAIN raw |-> [q \in DOMAIN raw[h] |->
                IF q = 1 THEN MulWeight(raw[h][q], w[h][1]) ELSE raw[h][q]]]
       ELSE raw

\* lines 775-778: the elementwise loss, multiplied by the broadcast weight
\* when newer_samples_weight > 1.0
WeightedLoss(cfg, time, predicted, targets) ==
    LET raw == [h \in DOMAIN predicted |-> [q \in DOMAIN predicted[h] |->
                   ElementLoss(predicted[h][q], targets[h])]]                \* line 775
        w == get_time_based_sample_weight(cfg.newer_samples_weight,
                                          cfg.newer_samples_start, TimeSlice(time, cfg.n_lags))
    IN IF cfg.newer_samples_weight > 1                                       \* line 776
       THEN [h \in DOMAIN raw |-> [q \in DOMAIN raw[h] |->
                MulWeight(raw[h][q], w[h][1])]]                              \* line 778
       ELSE raw

\* variant of Reduce that averages over the quantiles as well
Reduce_meanall(loss) ==
    SumSeq([h \in DOMAIN loss |-> SumSeq(loss[h])]) \div (NForecasts * Len(loss[1]))

\* line 779: loss.sum(dim=2).mean()
Reduce(loss) ==
    SumSeq([h \in DOMAIN loss |-> SumSeq(loss[h])]) \div NForecasts

\* variant of loss_func that regularizes whatever reg_enabled and finding_lr say
loss_func_alwaysreg(cfg, p, time, predicted, targets, tp, reg_en, flr) ==
    LET elementwise == WeightedLoss(cfg, time, predicted, targets)
        data == Reduce(elementwise)
    IN IF tp = None THEN [raised |-> TRUE]
       ELSE LET r == add_batch_regularizations(cfg, p, data, tp[1])
            IN IF r.raised THEN [raised |-> TRUE]
               ELSE [raised |-> FALSE, loss |-> r.loss, reg_loss |-> r.reg_loss,
                     data |-> data, elementwise |-> elementwise, terms |-> r.terms]

\* variant of loss_func that returns the regularization loss without adding it
loss_func_regnotadded(cfg, p, time, predicted, targets, tp, reg_en, flr) ==
    LET elementwise == WeightedLoss(cfg, time, predicted, targets)
        data == Reduce(elementwise)
    IN IF reg_en /\ ~flr
       THEN IF tp = None THEN [raised |-> TRUE]
            ELSE LET r == add_batch_regularizations(cfg, p, data, tp[1])
                 IN IF r.raised THEN [raised |-> TRUE]
                    ELSE [raised |-> FALSE, loss |-> data, reg_loss |-> r.reg_loss,
                          data |-> data, elementwise |-> elementwise, terms |-> r.terms]
       ELSE [raised |-> FALSE, loss |-> data, reg_loss |-> 0,
             data |-> data, elementwise |-> elementwise, terms |-> NoTerms]

\* lines 772-785 on one batch row.  tp is self.train_progress; reading it
\* while it is unset raises AttributeError (line 782).  Besides the two values
\* returned, the result records the elementwise loss after line 778, the data
\* loss after line 779 and the terms _add_batch_regularizations added.
loss_func(cfg, p, time, predicted, targets, tp, reg_en, flr) ==
    LET elementwise == WeightedLoss(cfg, time, predicted, targets)                \* lines 775-778
        data == Reduce(elementwise)                                               \* line 779
    IN IF reg_en /\ ~flr                                                          \* line 781
       THEN IF tp = None THEN [raised |-> TRUE]
            ELSE LET r == add_batch_regularizations(cfg, p, data, tp[1])
                 IN IF r.raised THEN [raised |-> TRUE]
                    ELSE [raised |-> FALSE, loss |-> r.loss, reg_loss |-> r.reg_loss,
                          data |-> data, elementwise |-> elementwise, terms |-> r.terms]
       ELSE [raised |-> FALSE, loss |-> data, reg_loss |-> 0,                    \* line 784
             data |-> data, elementwise |-> elementwise, terms |-> NoTerms]

NoTensor == <<>>

vars == <<qvars, cfgvars, fvars, params, rvars, svars, cvars, tvars, wvars, mvars>>

\* a trend / seasonality configuration without regularization
DefaultTrend ==
    [trend_reg |-> Some(0), n_changepoints |-> 0, trend_global_local |-> "global", trend_local_reg |-> 0]
DefaultSeasonality(m) ==
    [mode |-> m, periods |-> SeasonNames, reg_lambda |-> None, global_local |-> "global",
     seasonality_local_reg |-> 0]

IdleR ==
    /\ progress = [num |-> 0, den |-> 1] /\ loss_in = 0
    /\ reg_terms = NoTerms /\ reg_result = [status |-> "not called"]

\* ------------------------------------------- states of the parts not in use
IdleQ ==
    /\ diffs = NoTensor /\ diffs_in = NoTensor /\ out = NoTensor
    /\ predict_mode = FALSE /\ called = FALSE

IdleCfg ==
    /\ n_lags = 0 /\ max_lags = 0 /\ config_seasonality = NoneCfg
    /\ config_trend = DefaultTrend /\ config_ar = [reg_lambda |-> None]
    /\ events_dims = FALSE /\ event_modes = {}
    /\ regressors = FALSE /\ lagged_regressors = FALSE
    /\ components_stacker = [m \in Modes |-> {"time"}]

NoInput ==
    [trend |-> 0, season |-> 0, add_events |-> 0, mult_events |-> 0, add_regressors |-> 0,
     mult_regressors |-> 0, lags |-> 0, covariates |-> 0, absent_unstack |-> "raises"]

IdleF ==
    /\ mode = "train" /\ components = <<>> /\ prediction = NoTensor
    /\ stationarized_lags = <<>> /\ forecast = NoTensor /\ fwd_done = FALSE
    /\ fwd_inp = NoInput /\ unstacked = {} /\ fwd_raised = FALSE
    /\ returned_components = None

NoStep ==
    [kind |-> "none", batch |-> [x |-> 0, y |-> 0], calls |-> <<>>, raised |-> FALSE,
     predicted |-> NoTensor, loss |-> 0, reg_loss |-> 0]
NoEarlier ==
    [kind |-> "none", batch |-> [x |-> 0, y |-> 0], params |-> 0, train_progress |-> None,
     raised |-> FALSE, predicted |-> NoTensor, loss |-> 0, reg_loss |-> 0]

IdleS ==
    /\ train_progress = None /\ reg_enabled = FALSE /\ finding_lr = FALSE
    /\ step = NoStep /\ earlier = NoEarlier

\* the flag as __init__ leaves it (line 149); prev_include_components is not set
IdleT ==
    /\ include_components = FALSE /\ prev_include_components = None /\ toggles = <<>>

NoLossArgs == [time |-> <<>>, predicted |-> NoTensor, targets |-> <<>>]

\* recency weighting off (newer_samples_weight = 1.0), loss_func not called
IdleM ==
    /\ covar_weights = None
    /\ stacker_error = FALSE

IdleW ==
    /\ newer_samples_weight = 1 /\ newer_samples_start = 0
    /\ loss_args = NoLossArgs /\ loss_result = [status |-> "not called"]

NoCtorResult ==
    [status |-> "not called", events_dims |-> <<>>, n_additive_event_params |-> 0,
     n_multiplicative_event_params |-> 0, log |-> <<>>]

IdleC ==
    /\ ctor_args = [config_trend_none |-> FALSE, seasonality_mode |-> "none",
                    events_dims_none |-> TRUE, events_dims |-> <<>>]
    /\ ctor_result = NoCtorResult

\* ------------------------------------- specification: quantile reconciliation
InitQ ==
    /\ quantiles \in QuantileConfigs
    /\ diffs \in DiffTensors(Len(quantiles))
    /\ diffs_in = diffs
    /\ out = NoTensor
    /\ predict_mode = FALSE
    /\ called = FALSE
    /\ IdleCfg /\ IdleF /\ IdleT /\ IdleR /\ IdleS /\ IdleC /\ params = 1
    /\ IdleW
    /\ IdleM

\* a call of _compute_quantile_forecasts_from_diffs(diffs, predict_mode = pm)
ComputeQuantileForecasts(pm) ==
    /\ ~called
    /\ LET r == compute_quantile_forecasts_from_diffs(quantiles, diffs, pm)
       IN /\ out' = r.out
          /\ diffs' = r.diffs
    /\ predict_mode' = pm
    /\ called' = TRUE
    /\ UNCHANGED <<quantiles, diffs_in, cfgvars, fvars, params, rvars, svars, cvars, tvars, wvars, mvars>>

NextQ == \E pm \in BOOLEAN : ComputeQuantileForecasts(pm)

SpecQ == InitQ /\ [][NextQ]_vars

\* ------------------------------------------------- specification: forward
FwdQuantileConfigs == { <<50>>, <<50, 10, 90>> }

\* The named ranges a stacker built for the configuration can hold: time and
\* targets always, the range of seasonalities (sm: it has periods) and of
\* lagged regressors when configured, any of the event / regressor ranges of a configured kind, and
\* lags when n_lags > 0.
Schemas(nl, sm, ev, rg, lr) ==
    { {"time", "targets"} \cup (IF sm THEN {"seasonalities"} ELSE {})
                          \cup (IF lr THEN {"lagged_regressors"} ELSE {})
                          \cup opt :
        opt \in SUBSET ( (IF ev THEN {"additive_events", "multiplicative_events"} ELSE {})
                         \cup (IF rg THEN {"additive_regressors", "multiplicative_regressors"} ELSE {})
                         \cup (IF nl > 0 THEN {"lags"} ELSE {}) ) }

\* no seasonality, or one of either mode, with periodic terms or with none
SeasonalityChoices ==
    {NoneCfg} \cup { [DefaultSeasonality(m) EXCEPT !.periods = pd] :
                       m \in {"additive", "multiplicative"}, pd \in {{}, SeasonNames} }

InitF ==
    /\ quantiles \in FwdQuantileConfigs
    /\ n_lags \in 0 .. MaxLags
    /\ max_lags = n_lags
    /\ config_seasonality \in SeasonalityChoices
    /\ config_trend = DefaultTrend
    /\ config_ar = [reg_lambda |-> None]
    /\ events_dims \in BOOLEAN
    /\ event_modes = IF events_dims THEN {"additive", "multiplicative"} ELSE {}
    /\ regressors \in BOOLEAN
    /\ lagged_regressors \in BOOLEAN
    /\ components_stacker = [m \in Modes |-> NoStacker]
    /\ IdleQ /\ IdleF /\ IdleT /\ IdleR /\ IdleS /\ IdleC /\ params = 1
    /\ IdleW
    /\ IdleM

Config ==
    [quantiles |-> quantiles, n_lags |-> n_lags, season_mode |-> season_mode,
     season_periods |-> season_periods, covar_weights |-> covar_weights,
     events_dims |-> events_dims, lagged_regressors |-> lagged_regressors,
     event_modes |-> event_modes, regressors |-> regressors,
     config_trend_none |-> IsNoneCfg(config_trend),
     include_components |-> include_components]

\* the scales a batch can give an evaluated component; 0 stands for "not read"
ValsIf(evaluated) == IF evaluated THEN CompVals ELSE {0}

\* the batches forward can be given in mode md; while the mode has no stacker
\* forward reads nothing of the batch, which is then a single one
Inputs(md) ==
    LET fi == components_stacker[md] IN
    IF fi = NoStacker
    THEN {[trend |-> 0, season |-> 0, add_events |-> 0, mult_events |-> 0, add_regressors |-> 0,
           mult_regressors |-> 0, lags |-> 0, covariates |-> 0, absent_unstack |-> "raises"]}
    ELSE
    [trend           : CompVals,
     season          : ValsIf(EvalSeason(season_mode, season_periods)),
     add_events      : ValsIf(EvalAddEvents(events_dims, fi)),
     mult_events     : ValsIf(EvalMultEvents(events_dims, fi)),
     add_regressors  : ValsIf(EvalAddRegressors(fi)),
     mult_regressors : ValsIf(EvalMultRegressors(fi)),
     lags            : ValsIf(EvalLags(fi)),
     covariates      : ValsIf(EvalCovariates(lagged_regressors)),
     absent_unstack  : IF \/ EvalSeason(season_mode, season_periods) /\ "seasonalities" \notin fi
                          \/ EvalCovariates(lagged_regressors) /\ "lagged_regressors" \notin fi
                       THEN {"raises", "returns"} ELSE {"raises"}]

\* a call of forward(input_tensor, mode = md)
Forward(md, inp) ==
    /\ ~fwd_done
    /\ \E r \in {forward(Config, components_stacker[md], inp, md)} :
          /\ unstacked' = r.unstacked
          /\ fwd_raised' = r.raised
          /\ IF r.raised
             THEN /\ components' = <<>> /\ prediction' = NoTensor
                  /\ stationarized_lags' = <<>> /\ forecast' = NoTensor
                  /\ returned_components' = None
             ELSE /\ components' = r.components
                  /\ prediction' = r.prediction
                  /\ stationarized_lags' = r.stationarized_lags
                  /\ forecast' = r.forecast
                  /\ returned_components' = r.returned_components
    /\ mode' = md
    /\ fwd_inp' = inp
    /\ fwd_done' = TRUE
    /\ UNCHANGED <<qvars, cfgvars, params, rvars, svars, cvars, tvars, wvars, mvars>>

\* the mode arguments of set_components_stacker: the four modes and a string
\* that is none of them
ModeArgs == Modes \cup {"forecast"}

\* set_components_stacker(stacker, mode), lines 315-327
SetComponentsStacker(stacker, md) ==
    /\ IF md \in Modes                                                   \* line 326
       THEN /\ components_stacker' = [components_stacker EXCEPT ![md] = stacker]
            /\ stacker_error' = FALSE
       ELSE /\ stacker_error' = TRUE
            /\ UNCHANGED components_stacker
    /\ UNCHANGED <<qvars, n_lags, max_lags, config_seasonality, config_trend, config_ar,
                   events_dims, event_modes, regressors, lagged_regressors, fvars, params,
                   rvars, svars, cvars, tvars, wvars, covar_weights>>

\* the sums of attributions set_covar_weights can be given for the lagged regressor
CovarWeightVals == {0, 2}

\* set_covar_weights(covar_weights), lines 374-375
SetCovarWeights(w) ==
    /\ covar_weights' = Some(w)
    /\ UNCHANGED <<qvars, cfgvars, fvars, params, rvars, svars, cvars, tvars, wvars,
                   stacker_error>>

\* The behaviours explored make one call of set_components_stacker, before
\* forward runs: one mode gets a stacker, the other modes keep None.
MaySetStacker ==
    /\ ~fwd_done /\ ~stacker_error
    /\ \A m \in Modes : components_stacker[m] = NoStacker

NextF ==
    \/ \E md \in Modes : \E inp \in Inputs(md) : Forward(md, inp)
    \/ \E md \in ModeArgs :
       \E st \in Schemas(n_lags, EvalSeason(season_mode, season_periods), events_dims,
                         regressors, lagged_regressors) :
          MaySetStacker /\ SetComponentsStacker(st, md)

SpecF == InitF /\ [][NextF]_vars

\* ------------------- specification: forward on any schema, with components
\* The named ranges a stacker can hold under the configuration when a range
\* of a configured component may be missing: time and targets always, and any
\* of the ranges of the configured components.
WideSchemas(nl, sm, evm, rg, lr) ==
    { {"time", "targets"} \cup opt :
        opt \in SUBSET ( (IF sm # "none" THEN {"seasonalities"} ELSE {})
                         \cup (IF lr THEN {"lagged_regressors"} ELSE {})
                         \cup (IF "additive" \in evm THEN {"additive_events"} ELSE {})
                         \cup (IF "multiplicative" \in evm THEN {"multiplicative_events"} ELSE {})
                         \cup (IF rg THEN {"additive_regressors", "multiplicative_regressors"} ELSE {})
                         \cup (IF nl > 0 THEN {"lags"} ELSE {}) ) }

InitI ==
    /\ quantiles = <<50, 10, 90>>
    /\ n_lags \in 0 .. MaxLags
    /\ max_lags = n_lags
    /\ config_seasonality \in SeasonalityChoices
    /\ config_ar = [reg_lambda |-> None]
    /\ event_modes \in SUBSET {"additive", "multiplicative"}
    /\ events_dims = (event_modes # {})
    \* no trend configuration only where __init__ accepts it (lines 212, 241)
    /\ config_trend \in {DefaultTrend}
                        \cup (IF season_mode # "multiplicative" /\ "multiplicative" \notin event_modes
                              THEN {NoneCfg} ELSE {})
    /\ regressors \in BOOLEAN
    /\ lagged_regressors \in BOOLEAN
    /\ components_stacker = [m \in Modes |-> NoStacker]
    \* the flag as constructed, or after set_compute_components(True)
    /\ \/ IdleT
       \/ /\ include_components = TRUE /\ prev_include_components = Some(FALSE)
          /\ toggles = <<[op |-> "set", arg |-> TRUE, before |-> FALSE, after |-> TRUE,
                          raised |-> FALSE]>>
    /\ IdleQ /\ IdleF /\ IdleR /\ IdleS /\ IdleC /\ params = 1
    /\ IdleW
    /\ IdleM

\* the batches of SpecI: every component of the batch at one scale
InputsI(md) == { inp \in Inputs(md) : \A k \in DOMAIN inp :
                    k # "absent_unstack" => inp[k] \in {0, inp.trend} }

\* The behaviours explored store the attributions once, before forward runs,
\* on a model with a lagged regressor.
MaySetCovarWeights == ~fwd_done /\ lagged_regressors /\ covar_weights = None

\* the modes SpecI calls forward in: the training mode and one of the modes
\* that reconcile the quantiles (SpecF calls it in all four)
ModesI == {"train", "predict"}

NextI ==
    \/ \E md \in ModesI : \E inp \in InputsI(md) : Forward(md, inp)
    \/ \E md \in ModesI \cup {"forecast"} :
       \E st \in WideSchemas(n_lags, season_mode, event_modes, regressors, lagged_regressors) :
          MaySetStacker /\ SetComponentsStacker(st, md)
    \/ \E w \in CovarWeightVals : MaySetCovarWeights /\ SetCovarWeights(w)

SpecI == InitI /\ [][NextI]_vars

\* -------------------------------------------- specification: regularization
\* optional regularization weights: None, negative, zero, positive
LambdaVals == {None, Some(-1), Some(0), Some(1)}
GlobalLocalVals == {"global", "local", "glocal"}
LocalRegVals == {0, 1}
ParamVals == 1 .. MaxParam
\* before reg_start_pct, at it, at the midpoint of the thresholds, at
\* reg_full_pct, after it
ProgressVals == { [num |-> n, den |-> 20] : n \in {6, 10, 13, 16, 18} }
LossVals == {4}

TrendConfigs ==
    {NoneCfg}
    \cup { [trend_reg |-> l, n_changepoints |-> n, trend_global_local |-> g, trend_local_reg |-> r] :
             l \in LambdaVals, n \in {0, 1}, g \in GlobalLocalVals, r \in LocalRegVals }
SeasonalityConfigs ==
    {NoneCfg}
    \cup { [mode |-> "additive", periods |-> pd, reg_lambda |-> l, global_local |-> g,
             seasonality_local_reg |-> r] :
             pd \in {{}, SeasonNames}, l \in LambdaVals, g \in GlobalLocalVals, r \in LocalRegVals }

InitR ==
    /\ quantiles = <<50>>
    /\ n_lags \in 0 .. MaxLags
    /\ max_lags = n_lags
    /\ config_ar \in [reg_lambda : IF n_lags > 0 THEN LambdaVals ELSE {None}]
    /\ config_trend \in { c \in TrendConfigs :
                            IsNoneCfg(c) \/ c.n_changepoints > 0 \/ c.trend_reg = None }
    \* a seasonality without periodic terms has its local regularization off:
    \* line 1007 reads the season_params the seasonality component builds from
    \* its periods
    /\ config_seasonality \in { c \in SeasonalityConfigs :
                                  IsNoneCfg(c) \/ c.periods # {} \/ ~SeasonLocalApplies(c) }
    /\ events_dims \in BOOLEAN
    \* a multiplicative event only with a trend configuration: without one
    \* __init__ raises ValueError (lines 240-243)
    /\ event_modes = IF ~events_dims THEN {}
                     ELSE IF IsNoneCfg(config_trend) THEN {"additive"}
                     ELSE {"additive", "multiplicative"}
    /\ regressors \in BOOLEAN
    /\ lagged_regressors = FALSE
    /\ components_stacker = [m \in Modes |-> {"time"}]
    /\ params \in ParamVals
    /\ progress \in ProgressVals
    /\ loss_in \in LossVals
    /\ reg_terms = NoTerms
    /\ reg_result = [status |-> "not called"]
    /\ IdleQ /\ IdleF /\ IdleT /\ IdleS /\ IdleC
    /\ IdleW
    /\ IdleM

RegConfig ==
    [max_lags |-> max_lags, config_ar |-> config_ar, config_trend |-> config_trend,
     config_seasonality |-> config_seasonality, events |-> events_dims, regressors |-> regressors,
     n_lags |-> n_lags, newer_samples_weight |-> newer_samples_weight,
     newer_samples_start |-> newer_samples_start]

\* a call of _add_batch_regularizations(loss_in, progress)
AddBatchRegularizations ==
    /\ reg_result.status = "not called"
    /\ LET r == add_batch_regularizations(RegConfig, params, loss_in, progress)
       IN IF r.raised
          THEN /\ reg_result' = [status |-> "raised"]
               /\ reg_terms' = reg_terms
          ELSE /\ reg_result' = [status |-> "returned", loss |-> r.loss, reg_loss |-> r.reg_loss]
               /\ reg_terms' = r.terms
    /\ UNCHANGED <<qvars, cfgvars, fvars, params, progress, loss_in, svars, cvars, tvars, wvars, mvars>>

NextR == AddBatchRegularizations

SpecR == InitR /\ [][NextR]_vars

\* ------------------------------------ specification: the four step handlers
\* a batch: the scale x of its seasonality features and its target level y
Batches == { [x |-> 1, y |-> 3], [x |-> 2, y |-> 0] }

\* self.train_steps_per_epoch: the batches of one pass over the training data
StepsPerEpoch == Cardinality(Batches)

\* the trainer runs the training steps in order: (current_epoch, batch_idx) is
\* the position after the one the last training_step recorded in train_progress
TrainerAt(current_epoch, batch_idx) ==
    LET g == IF train_progress = None THEN 0 ELSE train_progress[1].num + 1
    IN /\ g < Epochs * StepsPerEpoch
       /\ current_epoch = g \div StepsPerEpoch
       /\ batch_idx = g % StepsPerEpoch

\* what the sub-models return for batch b under parameters p
StepInputs(p, b) ==
    [trend |-> p, season |-> p * b.x, add_events |-> 0, mult_events |-> 0,
     add_regressors |-> 0, mult_regressors |-> 0, lags |-> 0, covariates |-> 0,
     absent_unstack |-> "raises"]

\* unstack("time"): the normalized time of each window position
StepTime(b) == [w \in 1 .. (n_lags + NForecasts) |-> TimeUnit \div 2]

\* unstack("targets"): the target of each horizon position
Targets(b) == [h \in 1 .. NForecasts |-> b.y + h]

\* the parameters an optimizer step can leave: a step of the update in either
\* direction, or no change (zero gradient or zero learning rate)
OptimizerStep(p) == { q \in ParamVals : Abs(q - p) <= 1 }

OptimizationCalls == {"optimizer.zero_grad", "manual_backward", "optimizer.step", "scheduler.step"}

\* variant of training_step_calls that backpropagates before zeroing the gradients
training_step_calls_swapped(flr) ==
    <<"forward", "loss_func", "manual_backward", "optimizer.zero_grad",
      "optimizer.step", "scheduler.step">>

\* lines 800-816: the calls of training_step in order; scheduler.step() in
\* learning-rate-search mode and scheduler.step(epoch=epoch_float) otherwise
\* are each one call of scheduler.step
training_step_calls(flr) ==
    <<"forward", "loss_func", "optimizer.zero_grad", "manual_backward", "optimizer.step">>
    \o (IF flr THEN <<"scheduler.step">> ELSE <<"scheduler.step">>)

\* variant of eval_step_calls in which validation also steps the optimizer
eval_step_calls_optimizing(kind) ==
    IF kind = "predict" THEN <<"forward">>
    ELSE <<"forward", "loss_func", "optimizer.zero_grad", "manual_backward", "optimizer.step">>

\* lines 845-847, 867-869, 889-893: the calls of validation_step, test_step, predict_step
eval_step_calls(kind) ==
    IF kind = "predict" THEN <<"forward">> ELSE <<"forward", "loss_func">>

\* the parameters after a handler that made the calls cs
ParamsAfter(cs, p) ==
    IF \E i \in DOMAIN cs : cs[i] = "optimizer.step" THEN OptimizerStep(p) ELSE {p}

InitS ==
    /\ quantiles = <<50, 10, 90>>
    /\ n_lags = 0 /\ max_lags = 0
    /\ config_seasonality =
          [mode |-> "additive", periods |-> SeasonNames, reg_lambda |-> Some(1), global_local |-> "global",
           seasonality_local_reg |-> 0]
    /\ config_trend = DefaultTrend
    /\ config_ar = [reg_lambda |-> None]
    /\ events_dims = FALSE /\ event_modes = {}
    /\ regressors = FALSE /\ lagged_regressors = FALSE
    /\ components_stacker = [m \in Modes |-> {"time", "targets", "seasonalities"}]
    /\ params \in ParamVals
    /\ train_progress = None
    /\ reg_enabled \in BOOLEAN
    /\ finding_lr \in BOOLEAN
    /\ step = NoStep
    /\ earlier = NoEarlier
    /\ IdleQ /\ IdleF /\ IdleT /\ IdleR /\ IdleC
    /\ IdleW
    /\ IdleM

EvalKinds == {"val", "test", "predict"}

\* the step that was last, remembered when it was a validation / test / predict step
Remember ==
    IF step.kind \in EvalKinds
    THEN [kind |-> step.kind, batch |-> step.batch, params |-> params,
          train_progress |-> train_progress, raised |-> step.raised,
          predicted |-> step.predicted, loss |-> step.loss, reg_loss |-> step.reg_loss]
    ELSE earlier

\* the state a handler leaves: its record, the parameters, the remembered step
Finish(kind, b, cs, f, l) ==
    /\ IF l.raised
       THEN /\ step' = [NoStep EXCEPT !.kind = kind, !.batch = b, !.raised = TRUE,
                                      !.calls = <<"forward", "loss_func">>]
            /\ params' = params
       ELSE /\ step' = [kind |-> kind, batch |-> b, calls |-> cs, raised |-> FALSE,
                        predicted |-> f.forecast, loss |-> l.loss, reg_loss |-> l.reg_loss]
            /\ params' \in ParamsAfter(cs, params)
    /\ earlier' = Remember
    /\ UNCHANGED <<qvars, cfgvars, fvars, rvars, cvars, tvars, wvars, mvars, reg_enabled, finding_lr>>

\* variant of TrainProgress that leaves epoch_float undivided by the epochs
TrainProgress_epochfloat(current_epoch, batch_idx) ==
    [num |-> current_epoch * StepsPerEpoch + batch_idx, den |-> StepsPerEpoch]

\* lines 790-791: epoch_float = current_epoch + batch_idx / train_steps_per_epoch,
\* train_progress = epoch_float / epochs, as one fraction
TrainProgress(current_epoch, batch_idx) ==
    [num |-> current_epoch * StepsPerEpoch + batch_idx, den |-> StepsPerEpoch * Epochs]

\* training_step(batch = b, batch_idx) at trainer.current_epoch, lines 787-833
TrainingStep(b, current_epoch, batch_idx) ==
    LET tp == Some(TrainProgress(current_epoch, batch_idx))
    IN \E f \in {forward(Config, components_stacker["train"], StepInputs(params, b), "train")} :
       \E l \in {loss_func(RegConfig, params, StepTime(b), f.forecast, Targets(b), tp,
                           reg_enabled, finding_lr)} :
          /\ TrainerAt(current_epoch, batch_idx)
          /\ train_progress' = tp
          /\ Finish("train", b, training_step_calls(finding_lr), f, l)

\* validation_step, lines 835-856
ValidationStep(b) ==
    \E f \in {forward(Config, components_stacker["val"], StepInputs(params, b), "val")} :
    \E l \in {loss_func(RegConfig, params, StepTime(b), f.forecast, Targets(b), train_progress,
                        reg_enabled, finding_lr)} :
       /\ UNCHANGED train_progress
       /\ Finish("val", b, eval_step_calls("val"), f, l)

\* test_step, lines 857-878
TestStep(b) ==
    \E f \in {forward(Config, components_stacker["test"], StepInputs(params, b), "test")} :
    \E l \in {loss_func(RegConfig, params, StepTime(b), f.forecast, Targets(b), train_progress,
                        reg_enabled, finding_lr)} :
       /\ UNCHANGED train_progress
       /\ Finish("test", b, eval_step_calls("test"), f, l)

\* predict_step, lines 880-894: forward only, no loss
PredictStep(b) ==
    \E f \in {forward(Config, components_stacker["predict"], StepInputs(params, b), "predict")} :
       /\ UNCHANGED train_progress
       /\ Finish("predict", b, eval_step_calls("predict"), f,
                 [raised |-> FALSE, loss |-> 0, reg_loss |-> 0])

Next ==
    \E b \in Batches :
        \/ \E e \in 0 .. (Epochs - 1) : \E i \in 0 .. (StepsPerEpoch - 1) :
              TrainingStep(b, e, i)
        \/ ValidationStep(b)
        \/ TestStep(b)
        \/ PredictStep(b)

Init == InitS

Spec == Init /\ [][Next]_vars

\* ------------------------------------------------ specification: loss_func
\* newer_samples_weight: off (1.0), and two end weights
WeightVals == {1, 2, 3}
\* newer_samples_start: 0 and 0.5
StartVals == {0, TimeUnit \div 2}
\* the times a horizon step can have under start_t
TimeVals == {0, 1, 6, 8, 9, 12}
\* the time input of a batch row: the lags lie at time 0, the horizon later
LossTimes(nl, start_t) ==
    { [w \in 1 .. (nl + NForecasts) |-> IF w <= nl THEN 0 ELSE f[w - nl]] :
        f \in [1 .. NForecasts -> TimeVals] }
\* predictions and targets of a batch row
LossPredictions(Q) == { [h \in 1 .. NForecasts |-> [q \in 1 .. Q |-> v * (h + q)]] : v \in {1, 2} }
LossTargets == { [h \in 1 .. NForecasts |-> y + h] : y \in {0, 3} }

InitL ==
    /\ quantiles \in FwdQuantileConfigs
    /\ n_lags \in 0 .. MaxLags
    /\ max_lags = n_lags
    /\ config_seasonality =
          [mode |-> "additive", periods |-> SeasonNames, reg_lambda |-> Some(1), global_local |-> "local",
           seasonality_local_reg |-> 1]
    /\ config_trend =
          [trend_reg |-> Some(1), n_changepoints |-> 1, trend_global_local |-> "local",
           trend_local_reg |-> 1]
    /\ config_ar = [reg_lambda |-> None]
    /\ events_dims = FALSE /\ event_modes = {}
    /\ regressors = FALSE /\ lagged_regressors = FALSE
    /\ components_stacker = [m \in Modes |-> {"time", "targets", "seasonalities"}]
    /\ params \in ParamVals
    /\ train_progress \in {None} \cup { Some(pr) : pr \in {[num |-> 10, den |-> 20],
                                                         [num |-> 16, den |-> 20]} }
    /\ reg_enabled \in BOOLEAN
    /\ finding_lr \in BOOLEAN
    /\ step = NoStep /\ earlier = NoEarlier
    /\ newer_samples_weight \in WeightVals
    /\ newer_samples_start \in StartVals
    /\ loss_args \in [time : LossTimes(n_lags, newer_samples_start),
                      predicted : LossPredictions(Len(quantiles)),
                      targets : LossTargets]
    /\ loss_result = [status |-> "not called"]
    /\ IdleQ /\ IdleF /\ IdleT /\ IdleR /\ IdleC
    /\ IdleM

\* a call of loss_func(time, predicted, targets)
LossFunc ==
    /\ loss_result.status = "not called"
    /\ \E l \in {loss_func(RegConfig, params, loss_args.time, loss_args.predicted,
                           loss_args.targets, train_progress, reg_enabled, finding_lr)} :
          loss_result' =
              IF l.raised THEN [status |-> "raised"]
              ELSE [status |-> "returned", loss |-> l.loss, reg_loss |-> l.reg_loss,
                    data |-> l.data, elementwise |-> l.elementwise, terms |-> l.terms]
    /\ UNCHANGED <<qvars, cfgvars, fvars, params, rvars, svars, cvars, tvars, mvars,
                   newer_samples_weight, newer_samples_start, loss_args>>

NextL == LossFunc

SpecL == InitL /\ [][NextL]_vars

\* ------------------------------------------- specification: construction
\* variant of RequiresTrend in which nothing requires a trend
RequiresTrend_never(m, trend_none) == FALSE

\* lines 212 and 240-241: a multiplicative component while config_trend is None
RequiresTrend(m, trend_none) == m = "multiplicative" /\ trend_none

\* variant of SeasonalityModeKnown that accepts every mode string
SeasonalityModeKnown_any(m) == TRUE

\* line 214
SeasonalityModeKnown(m) == m \in {"additive", "multiplicative"}

\* variant of EventModeAfterCheck that leaves an unrecognized mode as it is
EventModeAfterCheck_kept(m) == m

\* lines 235-237: the mode of an event after the check of its mode string
EventModeAfterCheck(m) == IF m \notin {"additive", "multiplicative"} THEN "additive" ELSE m

\* lines 211-215: the outcome of the seasonality checks
seasonality_checks(args) ==
    IF args.seasonality_mode = "none" THEN "ok"                          \* line 211
    ELSE IF RequiresTrend(args.seasonality_mode, args.config_trend_none)
         THEN "ValueError"                                               \* line 213
    ELSE IF ~SeasonalityModeKnown(args.seasonality_mode)
         THEN "ValueError"                                               \* line 215
    ELSE "ok"

\* lines 234-244: the loop over events_dims from event i on; acc holds the
\* events as rewritten so far, the two counters and the error log
RECURSIVE event_loop(_, _, _)
event_loop(i, acc, trend_none) ==
    IF i > Len(acc.events_dims) THEN acc
    ELSE LET m0   == acc.events_dims[i].mode
             m    == EventModeAfterCheck(m0)
             log1 == IF m0 \notin {"additive", "multiplicative"}
                     THEN Append(acc.log, "Event Mode not implemented")  \* line 236
                     ELSE acc.log
             evs  == [acc.events_dims EXCEPT ![i].mode = m]              \* line 237
             n    == acc.events_dims[i].n_indices                        \* len(event_indices)
         IN IF m = "additive"
            THEN event_loop(i + 1,
                   [acc EXCEPT !.events_dims = evs, !.log = log1,
                               !.n_additive_event_params = @ + n], trend_none)
            ELSE IF m = "multiplicative"
            THEN IF RequiresTrend(m, trend_none)
                 THEN [acc EXCEPT !.status = "ValueError", !.events_dims = evs,
                                  !.log = Append(log1, "Multiplicative events require trend")]
                 ELSE event_loop(i + 1,
                        [acc EXCEPT !.events_dims = evs, !.log = log1,
                                    !.n_multiplicative_event_params = @ + n], trend_none)
            ELSE event_loop(i + 1, [acc EXCEPT !.events_dims = evs, !.log = log1], trend_none)

\* TimeNet.__init__, lines 208-255: the configuration checks
construct(args) ==
    IF seasonality_checks(args) = "ValueError"
    THEN [NoCtorResult EXCEPT !.status = "ValueError"]
    ELSE IF args.events_dims_none
    THEN [NoCtorResult EXCEPT !.status = "constructed"]                  \* lines 253-255
    ELSE event_loop(1, [NoCtorResult EXCEPT !.status = "constructed",
                                            !.events_dims = args.events_dims],
                    args.config_trend_none)

\* mode strings: the two implemented ones and an unrecognized one
ModeStrings == {"additive", "multiplicative", "weekly"}
EventConfigs == [mode : ModeStrings, n_indices : {1, 2}]
\* events_dims as config_events_to_model_dims returns it: a non-empty dict
EventsDims == UNION { [1 .. n -> EventConfigs] : n \in 1 .. MaxEvents }

InitC ==
    /\ ctor_args \in
          [config_trend_none : BOOLEAN, seasonality_mode : {"none"} \cup ModeStrings,
           events_dims_none : {FALSE}, events_dims : EventsDims]
          \cup
          [config_trend_none : BOOLEAN, seasonality_mode : {"none"} \cup ModeStrings,
           events_dims_none : {TRUE}, events_dims : {<<>>}]
    /\ ctor_result = NoCtorResult
    /\ quantiles = <<50>>
    /\ IdleQ /\ IdleCfg /\ IdleF /\ IdleT /\ IdleR /\ IdleS /\ params = 1
    /\ IdleW
    /\ IdleM

\* TimeNet(config_trend, config_seasonality, config_events, config_holidays, ...)
Construct ==
    /\ ctor_result.status = "not called"
    /\ ctor_result' = construct(ctor_args)
    /\ UNCHANGED <<qvars, cfgvars, fvars, params, rvars, svars, ctor_args, tvars, wvars, mvars>>

NextC == Construct

SpecC == InitC /\ [][NextC]_vars

\* ------------------------------- specification: the interpretability flag
\* variant of set_compute_components that does not save the current flag
set_compute_components_nosave(st, v) ==
    [include_components |-> v, prev_include_components |-> st.prev_include_components,
     raised |-> FALSE]

\* lines 765-767 on the two attributes st
set_compute_components(st, v) ==
    [include_components |-> v, prev_include_components |-> Some(st.include_components),
     raised |-> FALSE]

\* variant of reset_compute_components that also clears the saved value
reset_compute_components_clearing(st) ==
    IF st.prev_include_components = None
    THEN [include_components |-> st.include_components,
          prev_include_components |-> None, raised |-> TRUE]
    ELSE [include_components |-> st.prev_include_components[1],
          prev_include_components |-> Some(FALSE), raised |-> FALSE]

\* lines 769-770; reading self.prev_include_components before any set raises
\* AttributeError
reset_compute_components(st) ==
    IF st.prev_include_components = None
    THEN [include_components |-> st.include_components,
          prev_include_components |-> None, raised |-> TRUE]
    ELSE [include_components |-> st.prev_include_components[1],
          prev_include_components |-> st.prev_include_components, raised |-> FALSE]

FlagState ==
    [include_components |-> include_components,
     prev_include_components |-> prev_include_components]

InitT ==
    /\ quantiles = <<50>>
    /\ IdleQ /\ IdleCfg /\ IdleF /\ IdleT /\ IdleR /\ IdleS /\ IdleC /\ params = 1
    /\ IdleW
    /\ IdleM

Toggled(op, v, r) ==
    /\ include_components' = r.include_components
    /\ prev_include_components' = r.prev_include_components
    /\ toggles' = Append(toggles, [op |-> op, arg |-> v, before |-> include_components,
                                   after |-> r.include_components, raised |-> r.raised])
    /\ UNCHANGED <<qvars, cfgvars, fvars, params, rvars, svars, cvars, wvars, mvars>>

\* set_compute_components(include_components = v)
SetComputeComponents(v) ==
    /\ Len(toggles) < MaxToggles
    /\ Toggled("set", v, set_compute_components(FlagState, v))

\* reset_compute_components()
ResetComputeComponents ==
    /\ Len(toggles) < MaxToggles
    /\ Toggled("reset", FALSE, reset_compute_components(FlagState))

NextT == (\E v \in BOOLEAN : SetComputeComponents(v)) \/ ResetComputeComponents

SpecT == InitT /\ [][NextT]_vars

\* ------------------------------------------------------------ claims C1, C2
\* C1: with more than one quantile, the output of a non-training call
\* (predict_mode = TRUE) is non-decreasing in quantile-value order at every
\* position: lower quantiles <= median <= upper quantiles, each side ordered.
C1_PredictMonotone ==
    (called /\ predict_mode /\ Len(quantiles) > 1) =>
        \A p \in Positions : \A i, j \in 1 .. Len(quantiles) :
            (quantiles[i] <= quantiles[j]) => (out[p][i] <= out[p][j])

\* a predict-mode call on three or more quantiles whose raw offsets cross
C1_Witness ==
    /\ called /\ predict_mode /\ Len(quantiles) >= 3
    /\ \E p \in Positions : \E i \in 2 .. Len(quantiles) : diffs_in[p][i] < 0
    /\ \E p \in Positions : \E i, j \in 1 .. Len(quantiles) :
          quantiles[i] < quantiles[j] /\ out[p][i] < out[p][j]

\* C2: in train and in non-train mode alike, the median channel of the
\* output equals the median channel of the input the call was given.
C2_MedianUnchanged ==
    called => \A p \in Positions : out[p][1] = diffs_in[p][1]

\* a call that corrected crossing offsets, and a train-mode call on several quantiles
C2_Witness ==
    /\ called /\ Len(quantiles) > 1
    /\ \/ predict_mode /\ diffs # diffs_in
       \/ ~predict_mode /\ \E p \in Positions : out[p][2] # diffs_in[p][2]


\* ------------------------------------------------------------ claims C3, C5
\* the tensor forward stored under a name, or zero when it stored none
Stored(name, w, q) == IF name \in DOMAIN components THEN components[name][w][q] ELSE 0

\* the three accumulators rebuilt from the stored components by declared mode
NonstationaryAdditive(w, q) ==
    (IF season_mode = "additive" THEN Stored("seasonalities", w, q) ELSE 0)
    + Stored("additive_events", w, q) + Stored("additive_regressors", w, q)
NonstationaryMultiplicative(w, q) ==
    (IF season_mode = "multiplicative" THEN Stored("seasonalities", w, q) ELSE 0)
    + Stored("multiplicative_events", w, q) + Stored("multiplicative_regressors", w, q)
StationaryAdditive(h, q) == Stored("lags", h, q) + Stored("covariates", h, q)

\* C3: at every horizon position (window index n_lags + h) and every
\* quantile, the tensor passed to quantile reconciliation is
\* trend + nonstationary additive + trend * nonstationary multiplicative
\* + stationary additive, each evaluated component counted in exactly the
\* accumulator its declared mode names.
C3_Composition ==
    (fwd_done /\ ~fwd_raised) =>
        \A h \in 1 .. NForecasts : \A q \in 1 .. Len(quantiles) :
            prediction[h][q] =
                components["trend"][n_lags + h][q]
                + NonstationaryAdditive(n_lags + h, q)
                + components["trend"][n_lags + h][q] * NonstationaryMultiplicative(n_lags + h, q)
                + StationaryAdditive(h, q)

\* a call with lags that evaluated every component, seasonality multiplicative
C3_Witness ==
    /\ fwd_done /\ ~fwd_raised /\ n_lags >= 1 /\ Len(quantiles) >= 3
    /\ season_mode = "multiplicative"
    /\ DOMAIN components = {"trend", "seasonalities", "additive_events", "multiplicative_events",
                            "additive_regressors", "multiplicative_regressors", "lags", "covariates"}

\* every optional component disabled; seasonality is off without configuration
\* or periodic terms, lags are off when n_lags = 0 or when the schema holds no
\* lags range
AllDisabled ==
    /\ ~EvalSeason(season_mode, season_periods)
    /\ ~events_dims /\ ~regressors /\ ~lagged_regressors
    /\ \A m \in Modes : "lags" \notin components_stacker[m]

\* C5 as stated: with every optional component disabled the forecast equals
\* the trend output on the horizon slice, in every mode and for every
\* quantile configuration.
C5_Original ==
    (fwd_done /\ ~fwd_raised /\ AllDisabled /\ n_lags = 0) =>
        \A h \in 1 .. NForecasts : \A q \in 1 .. Len(quantiles) :
            forecast[h][q] = components["trend"][n_lags + h][q]

\* C5 amended: with every optional component disabled the tensor passed to
\* reconciliation is the trend on the horizon slice and the forecast is its
\* quantile reconciliation: equal to the trend in the median channel, and in
\* every channel when one quantile is configured; a lower / upper channel is
\* the trend's median minus / plus the trend's (corrected) offset.
C5_TrendOnly ==
    (fwd_done /\ ~fwd_raised /\ AllDisabled) =>
        LET trendH == [h \in 1 .. NForecasts |-> components["trend"][n_lags + h]]
        IN /\ prediction = trendH
           /\ forecast = compute_quantile_forecasts_from_diffs(quantiles, trendH, mode # "train").out
           /\ \A h \in 1 .. NForecasts : forecast[h][1] = trendH[h][1]
           /\ (Len(quantiles) = 1) => (forecast = trendH)

\* a trend-only forecast on several quantiles and a window with lag positions
C5_Witness ==
    /\ fwd_done /\ ~fwd_raised /\ AllDisabled /\ n_lags >= 1 /\ Len(quantiles) >= 3
    /\ DOMAIN components = {"trend"}
    /\ forecast # prediction


\* ------------------------------------------------------- claims C8, C9, C10
Returned == reg_result.status = "returned"
GatedTermNames == {"ar", "trend", "season", "events", "regressors"}

\* C8: whenever the delay weight of the current progress is 0, the
\* regularization loss is exactly the sum of the local trend term and the
\* local seasonality term: the AR, trend, seasonality, event and regressor
\* terms add nothing.
C8_DelayZeroOnlyLocal ==
    (Returned /\ get_reg_delay_weight(progress) = 0) =>
        /\ \A n \in GatedTermNames : reg_terms[n] = 0
        /\ reg_result.reg_loss =
              (IF ~IsNoneCfg(config_trend) /\ config_trend.trend_global_local = "local"
               THEN reg_func_trend_glocal(params, config_trend.trend_local_reg) ELSE 0)
              + (IF ~IsNoneCfg(config_seasonality) /\ config_seasonality.global_local # "global"
                 THEN reg_func_seasonality_glocal(params, config_seasonality.seasonality_local_reg)
                 ELSE 0)

\* delay weight 0 with every gated term configured and both local terms on
C8_Witness ==
    /\ Returned /\ get_reg_delay_weight(progress) = 0
    /\ max_lags > 0 /\ config_ar.reg_lambda = Some(1)
    /\ ~IsNoneCfg(config_trend) /\ config_trend.n_changepoints > 0 /\ config_trend.trend_reg = Some(1)
    /\ ~IsNoneCfg(config_seasonality) /\ config_seasonality.reg_lambda = Some(1)
    /\ events_dims /\ regressors
    /\ reg_terms["trend_local"] > 0 /\ reg_terms["season_local"] > 0
    /\ reg_result.reg_loss > 0

\* C9: for trend and for seasonality, when the component's global/local mode
\* is "global" its local-regularization term adds exactly zero, whatever the
\* local-regularization weight and the delay weight.
C9_GlobalNoLocalTerm ==
    Returned =>
        /\ (~IsNoneCfg(config_trend) /\ config_trend.trend_global_local = "global") =>
              /\ reg_terms["trend_local"] = 0
              /\ reg_result.reg_loss = SumOver(reg_terms, TermNames \ {"trend_local"})
        /\ (~IsNoneCfg(config_seasonality) /\ config_seasonality.global_local = "global") =>
              /\ reg_terms["season_local"] = 0
              /\ reg_result.reg_loss = SumOver(reg_terms, TermNames \ {"season_local"})

\* both components global with a nonzero local weight, the gated terms active
C9_Witness ==
    /\ Returned /\ get_reg_delay_weight(progress) > 0
    /\ ~IsNoneCfg(config_trend) /\ config_trend.trend_global_local = "global"
    /\ config_trend.trend_local_reg # 0
    /\ ~IsNoneCfg(config_seasonality) /\ config_seasonality.global_local = "global"
    /\ config_seasonality.seasonality_local_reg # 0
    /\ reg_result.reg_loss > 0

\* C10 as stated: for trend and seasonality alike, "local" or "glocal" with a
\* nonzero local-regularization weight adds the component's local term, at
\* every delay weight.
C10_Original ==
    Returned =>
        /\ (~IsNoneCfg(config_trend) /\ config_trend.trend_global_local \in {"local", "glocal"}
              /\ config_trend.trend_local_reg # 0) =>
              reg_terms["trend_local"] = reg_func_trend_glocal(params, config_trend.trend_local_reg)
        /\ (~IsNoneCfg(config_seasonality) /\ config_seasonality.global_local \in {"local", "glocal"}
              /\ config_seasonality.seasonality_local_reg # 0) =>
              reg_terms["season_local"] =
                  reg_func_seasonality_glocal(params, config_seasonality.seasonality_local_reg)

\* C10 amended: at every delay weight, seasonality configured "local" or
\* "glocal" with a nonzero local weight adds its local term; trend adds its
\* local term only when configured "local" with a nonzero local weight, and
\* a trend configured "glocal" adds none.
C10_LocalTerms ==
    Returned =>
        /\ (~IsNoneCfg(config_trend) /\ config_trend.trend_global_local = "local"
              /\ config_trend.trend_local_reg # 0) =>
              /\ reg_terms["trend_local"] = reg_func_trend_glocal(params, config_trend.trend_local_reg)
              /\ reg_terms["trend_local"] # 0
        /\ (~IsNoneCfg(config_trend) /\ config_trend.trend_global_local = "glocal") =>
              reg_terms["trend_local"] = 0
        /\ (~IsNoneCfg(config_seasonality) /\ config_seasonality.global_local \in {"local", "glocal"}
              /\ config_seasonality.seasonality_local_reg # 0) =>
              /\ reg_terms["season_local"] =
                    reg_func_seasonality_glocal(params, config_seasonality.seasonality_local_reg)
              /\ reg_terms["season_local"] # 0
        /\ reg_result.reg_loss = SumOver(reg_terms, TermNames)

\* delay weight 0, trend local and seasonality glocal, both terms added
C10_Witness ==
    /\ Returned /\ get_reg_delay_weight(progress) = 0
    /\ ~IsNoneCfg(config_trend) /\ config_trend.trend_global_local = "local"
    /\ ~IsNoneCfg(config_seasonality) /\ config_seasonality.global_local = "glocal"
    /\ reg_terms["trend_local"] > 0 /\ reg_terms["season_local"] > 0
    /\ reg_result.reg_loss = reg_terms["trend_local"] + reg_terms["season_local"]

\* ------------------------------------------------------------ claims C4, C6, C7
IsOptimizationCall(c) == c \in OptimizationCalls

Before(cs, a, b) ==
    \A i, j \in DOMAIN cs : cs[i] = a /\ cs[j] = b => i < j

\* C4: every training_step, in normal and in learning-rate-search mode, makes
\* the four optimization calls exactly once each, in the order zero_grad,
\* manual_backward, optimizer.step, scheduler.step, and all of them after
\* the forward pass and the loss computation.
C4_TrainingOrder ==
    step.kind = "train" =>
        /\ SelectSeq(step.calls, IsOptimizationCall) =
              <<"optimizer.zero_grad", "manual_backward", "optimizer.step", "scheduler.step">>
        /\ \E i, j \in DOMAIN step.calls :
              /\ step.calls[i] = "forward" /\ step.calls[j] = "loss_func" /\ i < j
        /\ \A c \in OptimizationCalls :
              Before(step.calls, "forward", c) /\ Before(step.calls, "loss_func", c)

\* a training step has run in learning-rate-search mode, after an earlier
\* validation step
C4_Witness ==
    /\ step.kind = "train" /\ finding_lr
    /\ Len(step.calls) = 6
    /\ earlier.kind = "val"

\* C6: a validation, test or predict step makes no optimization call and
\* leaves the parameters and train_progress as they were; the parameters
\* change only in a training step that made the optimizer.step call.
C6_EvalFrame ==
    [][ /\ step'.kind \in EvalKinds =>
              /\ params' = params
              /\ train_progress' = train_progress
              /\ SelectSeq(step'.calls, IsOptimizationCall) = <<>>
        /\ params' # params =>
              /\ step'.kind = "train"
              /\ \E i \in DOMAIN step'.calls : step'.calls[i] = "optimizer.step" ]_vars

\* validation, test and predict steps have run after training had started
C6_Witness ==
    /\ step.kind = "predict" /\ earlier.kind \in {"val", "test"}
    /\ ~earlier.raised
    /\ train_progress # None
    /\ earlier.train_progress = train_progress

\* two steps of the same kind on the same batch under equal parameters
SameStepTwice ==
    /\ step.kind \in EvalKinds
    /\ earlier.kind = step.kind
    /\ earlier.batch = step.batch
    /\ earlier.params = params

\* C7 as stated: two validation / test / predict steps on the same batch under
\* equal parameters compute the same prediction, loss and regularization
\* loss, whatever train_progress the training steps in between left.
C7_Original ==
    SameStepTwice /\ ~step.raised /\ ~earlier.raised =>
        /\ earlier.predicted = step.predicted
        /\ earlier.loss = step.loss
        /\ earlier.reg_loss = step.reg_loss

\* C7: two steps of the same kind on the same batch under equal parameters
\* compute the same prediction; their loss and regularization loss (and
\* whether loss_func raises) are the same when train_progress is the same too,
\* or when regularization is disabled or the model is in learning-rate-search
\* mode.
C7_PureGivenProgress ==
    SameStepTwice =>
        /\ ~step.raised /\ ~earlier.raised => earlier.predicted = step.predicted
        /\ earlier.train_progress = train_progress \/ ~reg_enabled \/ finding_lr =>
              /\ earlier.raised = step.raised
              /\ earlier.loss = step.loss
              /\ earlier.reg_loss = step.reg_loss

\* the same validation step ran twice with the regularization in force
C7_Witness ==
    /\ SameStepTwice /\ step.kind = "val"
    /\ reg_enabled /\ ~finding_lr
    /\ earlier.train_progress = train_progress
    /\ step.reg_loss > 0

\* ---------------------------------------------------------- claims C11, C12
\* C11: with exactly one quantile configured the call returns its input at
\* every position, in predict mode and in train mode, and leaves the input
\* tensor as it was.
C11_SingleQuantileIdentity ==
    (called /\ Len(quantiles) = 1) => (out = diffs_in /\ diffs = diffs_in)

\* a predict-mode call on a single quantile whose forecast is negative
C11_Witness ==
    /\ called /\ Len(quantiles) = 1 /\ predict_mode
    /\ \E p \in Positions : diffs_in[p][1] < 0 /\ out[p][1] < 0

\* C12: a train-mode call on several quantiles applies no clamp: every upper
\* quantile output is the median plus its raw offset, every lower quantile
\* output is the median minus its raw offset, and the input tensor is unchanged.
C12_TrainNoClamp ==
    (called /\ ~predict_mode /\ Len(quantiles) > 1) =>
        /\ diffs = diffs_in
        /\ \A p \in Positions : \A i \in 2 .. Len(quantiles) :
              out[p][i] = IF quantiles[i] > 50
                          THEN diffs_in[p][1] + diffs_in[p][i]
                          ELSE diffs_in[p][1] - diffs_in[p][i]

\* a train-mode call whose output crosses: a lower quantile above a higher one
C12_Witness ==
    /\ called /\ ~predict_mode /\ Len(quantiles) >= 3
    /\ \E p \in Positions : \E i, j \in 1 .. Len(quantiles) :
          quantiles[i] < quantiles[j] /\ out[p][i] > out[p][j]

\* ------------------------------------------------------ claims C13, C14, C15
Constructed == ctor_result.status = "constructed"
CtorRaised == ctor_result.status = "ValueError"
EventIndices == 1 .. Len(ctor_args.events_dims)
UnknownEvent(i) == ctor_args.events_dims[i].mode \notin {"additive", "multiplicative"}

\* C13: construction with multiplicative seasonality, or with an event or
\* holiday in multiplicative mode, while config_trend is None raises
\* ValueError and produces no model.
C13_MultiplicativeNeedsTrend ==
    (ctor_result.status # "not called" /\ ctor_args.config_trend_none
       /\ (\/ ctor_args.seasonality_mode = "multiplicative"
           \/ \E i \in EventIndices : ctor_args.events_dims[i].mode = "multiplicative"))
    => CtorRaised

\* construction without trend failed on a multiplicative event that follows
\* an additive one, seasonality being additive
C13_Witness ==
    /\ CtorRaised /\ ctor_args.config_trend_none
    /\ ctor_args.seasonality_mode = "additive"
    /\ Len(ctor_args.events_dims) = 2
    /\ ctor_args.events_dims[1].mode = "additive"
    /\ ctor_args.events_dims[2].mode = "multiplicative"

\* C14: construction with a seasonality mode string other than "additive"
\* and "multiplicative" raises ValueError, with and without a trend.
C14_UnknownSeasonalityMode ==
    (ctor_result.status # "not called"
       /\ ctor_args.seasonality_mode \notin {"none", "additive", "multiplicative"})
    => CtorRaised

\* an unrecognized seasonality mode made construction fail although a trend
\* is configured and no event is multiplicative
C14_Witness ==
    /\ CtorRaised /\ ~ctor_args.config_trend_none
    /\ ctor_args.seasonality_mode = "weekly"
    /\ \A i \in EventIndices : ctor_args.events_dims[i].mode = "additive"

\* construction fails for a reason other than an unrecognized event mode
OtherFailure ==
    \/ seasonality_checks(ctor_args) = "ValueError"
    \/ ctor_args.config_trend_none
         /\ \E i \in EventIndices : ctor_args.events_dims[i].mode = "multiplicative"

RECURSIVE SumIndices(_, _)
SumIndices(evs, i) ==
    IF i > Len(evs) THEN 0
    ELSE (IF evs[i].mode # "multiplicative" THEN evs[i].n_indices ELSE 0) + SumIndices(evs, i + 1)

\* C15: an event with an unrecognized mode string never makes construction
\* fail; in the constructed model its mode is "additive", one error is logged
\* for it, and its indices are counted in the additive parameter block; with
\* and without a trend.
C15_UnknownEventCoerced ==
    (ctor_result.status # "not called" /\ \E i \in EventIndices : UnknownEvent(i)) =>
        /\ CtorRaised => OtherFailure
        /\ Constructed =>
              /\ \A i \in EventIndices :
                    UnknownEvent(i) => ctor_result.events_dims[i].mode = "additive"
              /\ Cardinality({i \in EventIndices : UnknownEvent(i)})
                    = Cardinality({k \in DOMAIN ctor_result.log :
                                      ctor_result.log[k] = "Event Mode not implemented"})
              /\ ctor_result.n_additive_event_params = SumIndices(ctor_args.events_dims, 1)

\* a model without trend was constructed from an event of unrecognized mode
\* with two indices
C15_Witness ==
    /\ Constructed /\ ctor_args.config_trend_none
    /\ \E i \in EventIndices : UnknownEvent(i) /\ ctor_args.events_dims[i].n_indices = 2
    /\ ctor_result.n_additive_event_params >= 2
    /\ Len(ctor_result.log) >= 1

\* ---------------------------------------------------------- claims C18, C19
\* C18: a set_compute_components(v) directly followed by
\* reset_compute_components() leaves the flag at the value p it had before
\* the set; between the two calls the flag is v.
C18_SetResetRestores ==
    \A k \in 1 .. (Len(toggles) - 1) :
        (toggles[k].op = "set" /\ toggles[k + 1].op = "reset") =>
            /\ toggles[k].after = toggles[k].arg
            /\ toggles[k + 1].before = toggles[k].arg
            /\ ~toggles[k + 1].raised
            /\ toggles[k + 1].after = toggles[k].before

\* set(TRUE) then reset, on a flag that an earlier set had left FALSE after TRUE
C18_Witness ==
    /\ Len(toggles) = 4
    /\ toggles[3].op = "set" /\ toggles[3].arg = FALSE /\ toggles[3].before = TRUE
    /\ toggles[4].op = "reset" /\ include_components = TRUE

\* C19: after set(a); set(b); reset(); reset() the flag equals a, the
\* argument of the first set, whatever value p it had before the first set.
C19_NestedRestoresFirstArg ==
    \A k \in 1 .. (Len(toggles) - 3) :
        (/\ toggles[k].op = "set" /\ toggles[k + 1].op = "set"
         /\ toggles[k + 2].op = "reset" /\ toggles[k + 3].op = "reset") =>
            /\ toggles[k + 2].after = toggles[k].arg
            /\ toggles[k + 3].after = toggles[k].arg

\* nested toggling that did not restore the prior value: p = FALSE, a = TRUE
C19_Witness ==
    /\ Len(toggles) = 4
    /\ toggles[1].op = "set" /\ toggles[1].before = FALSE /\ toggles[1].arg = TRUE
    /\ toggles[2].op = "set" /\ toggles[2].arg = FALSE
    /\ toggles[3].op = "reset" /\ toggles[4].op = "reset"
    /\ include_components = TRUE

\* ----------------------------------------------------- claims C16, C17, C20
\* the named range of each optional component, the key forward stores its
\* output under, and the keys compute_components returns for it
Ranges == {"seasonalities", "additive_events", "multiplicative_events", "additive_regressors",
           "multiplicative_regressors", "lags", "lagged_regressors"}
RawKey(r) == IF r = "lagged_regressors" THEN "covariates" ELSE r
DecompositionKeys(r) ==
    CASE r = "seasonalities" -> {"season_yearly", "season_weekly"}
      [] r = "additive_events" -> {"events_additive", "event_a"}
      [] r = "multiplicative_events" -> {"events_multiplicative", "event_m"}
      [] r = "additive_regressors" -> {"future_regressors_additive", "future_regressor_a"}
      [] r = "multiplicative_regressors" -> {"future_regressors_multiplicative", "future_regressor_m"}
      [] r = "lags" -> {"ar"}
      [] r = "lagged_regressors" -> {"lagged_regressor_x"}

\* the component of range r is configured (seasonality: with periodic terms)
Enabled(r) ==
    CASE r = "seasonalities" -> EvalSeason(season_mode, season_periods)
      [] r = "additive_events" -> "additive" \in event_modes
      [] r = "multiplicative_events" -> "multiplicative" \in event_modes
      [] r = "additive_regressors" -> regressors
      [] r = "multiplicative_regressors" -> regressors
      [] r = "lags" -> n_lags > 0
      [] r = "lagged_regressors" -> lagged_regressors

\* range r is configured and missing from the schema of the mode of the call
Absent(r) == Enabled(r) /\ r \notin components_stacker[mode]

\* the call ran as the model is meant to be used: the mode had a stacker, and
\* a model with a lagged regressor had its attributions stored
Prepared ==
    /\ components_stacker[mode] # NoStacker
    /\ lagged_regressors => covar_weights # None

\* C16 as stated: a forward call in a mode that has a stacker does not raise,
\* and for every enabled component whose range is absent from the schema of
\* the mode it makes no unstack call and adds nothing to the prediction.
C16_Original ==
    (fwd_done /\ Prepared) =>
        /\ ~fwd_raised
        /\ \A r \in Ranges : Absent(r) => (r \notin unstacked /\ RawKey(r) \notin DOMAIN components)

\* forward unstacked the seasonalities although the schema of the mode holds
\* no such range, and added what the stacker returned to the prediction
C16_Witness ==
    /\ fwd_done /\ ~fwd_raised /\ mode = "train" /\ Prepared
    /\ Absent("seasonalities")
    /\ "seasonalities" \in unstacked
    /\ "seasonalities" \in DOMAIN components
    /\ \E h \in 1 .. NForecasts : components["seasonalities"][n_lags + h][1] # 0

\* C17 as stated: in interpretability mode, on a schema that holds the ranges
\* forward unstacks unconditionally (and with the attributions of a lagged
\* regressor stored), the call does not raise and the returned decomposition
\* has no entry of a component whose range is absent.
C17_Original ==
    (fwd_done /\ Prepared /\ include_components
       /\ ~Absent("seasonalities") /\ ~Absent("lagged_regressors")) =>
        /\ ~fwd_raised
        /\ returned_components # None
        /\ \A r \in Ranges :
              Absent(r) => DecompositionKeys(r) \cap DOMAIN returned_components[1] = {}

\* an interpretability-mode predict call raised in compute_components: an
\* additive event is configured and the schema holds no additive_events range
C17_Witness ==
    /\ fwd_done /\ Prepared /\ include_components /\ mode = "predict"
    /\ ~Absent("seasonalities") /\ ~Absent("lagged_regressors")
    /\ Absent("additive_events")
    /\ fwd_raised

\* C20: a forward call that returns gives None as its second result exactly
\* when include_components is false and the decomposition compute_components
\* makes of the call's own component tensors exactly when it is true; the
\* forecast is the one the call returns under the other value of the flag.
C20_ComponentsIffFlag ==
    (fwd_done /\ ~fwd_raised) =>
        /\ (returned_components = None) <=> ~include_components
        /\ include_components =>
              returned_components =
                  Some(compute_components(Config, unstacked, components, fwd_inp).components)
        /\ LET other == forward([Config EXCEPT !.include_components = ~include_components],
                                components_stacker[mode], fwd_inp, mode)
           IN ~other.raised => other.forecast = forecast

\* an interpretability-mode predict call returned a decomposition with
\* seasonality, autoregression and event entries
C20_Witness ==
    /\ fwd_done /\ ~fwd_raised /\ include_components /\ mode = "predict"
    /\ returned_components # None
    /\ {"trend", "season_yearly", "ar", "event_a", "lagged_regressor_x"}
          \subseteq DOMAIN returned_components[1]
    /\ forecast # prediction

\* ---------------------------------------------------------- claims C29, C30
\* C29: the call leaves its input diff tensor unchanged in every mode: after
\* the call every channel of diffs holds the value it held before the call,
\* also when the crossing correction ran (predict_mode = TRUE).
C29_Original ==
    called => diffs = diffs_in

\* a predict-mode call on several quantiles with a negative raw offset, after
\* which the caller's tensor differs from what it passed in
C29_Witness ==
    /\ called /\ predict_mode /\ Len(quantiles) > 1
    /\ \E p \in Positions : \E i \in 2 .. Len(quantiles) :
          diffs_in[p][i] < 0 /\ diffs[p][i] # diffs_in[p][i]

\* the offsets of a row are consistent: on each side non-negative and
\* non-decreasing going outward from the median
ConsistentRow(qs, row) ==
    LET d == quantiles_divider_index(qs)
    IN /\ \A i \in 2 .. Len(row) : row[i] >= 0
       /\ \A i, j \in (d + 1) .. Len(row) : (i <= j) => (row[i] <= row[j])
       /\ \A i, j \in 2 .. d : (i <= j) => (row[i] >= row[j])

\* the greatest of 0 and the raw offsets row[j] for j in S
RunningMax(row, S) ==
    CHOOSE m \in {0} \cup {row[j] : j \in S} :
        \A x \in {0} \cup {row[j] : j \in S} : x <= m

\* C30: in predict mode, a row whose offsets are already consistent comes out
\* exactly as in train mode; in every row the corrected offset of a quantile
\* is the running maximum of 0 and the raw offsets from the median side up
\* to that quantile (upper side added to, lower side subtracted from the
\* median).
C30_ConsistentUnchanged ==
    (called /\ predict_mode /\ Len(quantiles) > 1) =>
        \A p \in Positions :
            LET row == diffs_in[p]
                d   == quantiles_divider_index(quantiles)
            IN /\ ConsistentRow(quantiles, row) =>
                      out[p] = ReconcileRow(quantiles, row, FALSE).out
               /\ \A i \in (d + 1) .. Len(row) :
                      out[p][i] - row[1] = RunningMax(row, (d + 1) .. i)
               /\ \A i \in 2 .. d :
                      row[1] - out[p][i] = RunningMax(row, i .. d)

\* predict-mode calls on four quantiles: one on a consistent row with
\* positive offsets on the lower side, one on a row whose lower offsets
\* cross so that the running maximum replaces a raw offset
C30_Witness ==
    /\ called /\ predict_mode /\ Len(quantiles) = 4
    /\ quantiles_divider_index(quantiles) >= 3
    /\ \E p \in Positions :
          \/ /\ ConsistentRow(quantiles, diffs_in[p])
             /\ diffs_in[p][2] > 0
             /\ out[p] = ReconcileRow(quantiles, diffs_in[p], FALSE).out
          \/ /\ ~ConsistentRow(quantiles, diffs_in[p])
             /\ diffs_in[p][3] > diffs_in[p][2]
             /\ diffs_in[p][1] - out[p][2] = diffs_in[p][3]

\* ---------------------------------------------------------------- claim C25
\* C25: when lags are evaluated, the input of the AR network is, at every
\* window position 0..n_lags-1 and on channel 0, the raw lag minus
\* (trend + nonstationary additive + trend * nonstationary multiplicative),
\* where the two accumulators hold every seasonality, event and
\* future-regressor component the same call evaluated; the stored lags
\* component is the AR network applied to that input.
C25_Stationarized ==
    (fwd_done /\ ~fwd_raised /\ EvalLags(components_stacker[mode])) =>
        /\ DOMAIN stationarized_lags = 1 .. n_lags
        /\ \A l \in 1 .. n_lags :
              stationarized_lags[l] =
                  LagsInput(fwd_inp.lags, n_lags)[l]
                  - ( Stored("trend", l, 1)
                      + NonstationaryAdditive(l, 1)
                      + Stored("trend", l, 1) * NonstationaryMultiplicative(l, 1) )
        /\ components["lags"] =
              auto_regression(stationarized_lags, NForecasts, Len(quantiles))

\* a call with lags that evaluated multiplicative seasonality, both event
\* kinds and both future-regressor kinds before the subtraction
C25_Witness ==
    /\ fwd_done /\ ~fwd_raised /\ n_lags >= 1
    /\ EvalLags(components_stacker[mode])
    /\ season_mode = "multiplicative"
    /\ {"seasonalities", "additive_events", "multiplicative_events",
        "additive_regressors", "multiplicative_regressors"} \subseteq DOMAIN components
    /\ NonstationaryMultiplicative(1, 1) > 0 /\ NonstationaryAdditive(1, 1) > 0
    /\ stationarized_lags[1] # LagsInput(fwd_inp.lags, n_lags)[1] - Stored("trend", 1, 1)

\* ---------------------------------------------------------------- claim C23
\* an optional regularization weight that is set and positive
Positive(l) == l # None /\ l[1] > 0

\* C23: when the delay weight is > 0, each of the AR, trend and seasonality
\* terms is its own lambda times its regularizer, and is zero when that
\* lambda is None or <= 0 (the trend term also when n_changepoints = 0); in
\* particular an AR lambda that is 0 or negative adds nothing.
C23_Original ==
    (Returned /\ get_reg_delay_weight(progress) > 0) =>
        /\ reg_terms["ar"] =
              IF max_lags > 0 /\ Positive(config_ar.reg_lambda)
              THEN config_ar.reg_lambda[1] * (ArRegSum(params) \div NForecasts) ELSE 0
        /\ reg_terms["trend"] =
              IF Positive(config_trend.trend_reg) /\ config_trend.n_changepoints > 0
              THEN config_trend.trend_reg[1] * reg_func_trend(params) ELSE 0
        /\ reg_terms["season"] =
              IF ~IsNoneCfg(config_seasonality) /\ Positive(config_seasonality.reg_lambda)
              THEN SumOver([n \in season_periods |->
                              config_seasonality.reg_lambda[1] * reg_func_season(n, params)],
                           season_periods)
              ELSE 0

\* a call at a positive delay weight with lags and a negative AR lambda whose
\* AR term lowers the regularization loss
C23_Witness ==
    /\ Returned /\ get_reg_delay_weight(progress) > 0
    /\ max_lags > 0 /\ config_ar.reg_lambda # None /\ config_ar.reg_lambda[1] < 0
    /\ reg_terms["ar"] < 0
    /\ reg_result.reg_loss = SumOver(reg_terms, TermNames)

\* ------------------------------------------------------ claims C21, C22, C24
LossReturned == loss_result.status = "returned"

\* the elementwise loss summed over quantiles and averaged over the horizon,
\* without any weighting
UnweightedLoss(predicted, targets) ==
    SumSeq([h \in DOMAIN predicted |->
              SumSeq([q \in DOMAIN predicted[h] |-> ElementLoss(predicted[h][q], targets[h])])])
    \div NForecasts

\* C21: loss_func returns (total loss, reg_loss) with total = data loss +
\* reg_loss; when regularization is not enabled or the model is in
\* learning-rate-search mode the call returns, reg_loss is exactly 0, the
\* total is the data loss, and no regularization term, gated or local, was
\* added.
C21_TotalLoss ==
    /\ LossReturned =>
          /\ loss_result.loss = loss_result.data + loss_result.reg_loss
          /\ loss_result.data = Reduce(loss_result.elementwise)
          /\ loss_result.reg_loss = SumOver(loss_result.terms, TermNames)
    /\ (loss_result.status # "not called" /\ (~reg_enabled \/ finding_lr)) =>
          /\ LossReturned
          /\ loss_result.reg_loss = 0
          /\ loss_result.loss = loss_result.data
          /\ loss_result.terms = NoTerms

\* learning-rate search with regularization enabled, past reg_full_pct, local
\* regularization configured: nothing is added to a positive data loss
C21_Witness ==
    /\ LossReturned /\ reg_enabled /\ finding_lr
    /\ train_progress = Some([num |-> 16, den |-> 20])
    /\ TrendLocalApplies(config_trend) /\ SeasonLocalApplies(config_seasonality)
    /\ loss_result.reg_loss = 0
    /\ loss_result.data > 0 /\ loss_result.loss = loss_result.data

\* C22: with newer_samples_weight = 1.0 the time-based sample weight is 1 at
\* every time step, and the data loss of the call is the unweighted loss:
\* the elementwise loss summed over quantiles and averaged over the horizon.
C22_UnitWeight ==
    (loss_result.status # "not called" /\ newer_samples_weight = 1) =>
        /\ \A h \in 1 .. NForecasts :
              LET w == get_time_based_sample_weight(newer_samples_weight, newer_samples_start,
                                                    TimeSlice(loss_args.time, n_lags))[h][1]
              IN w = One
        /\ LossReturned =>
              loss_result.data = UnweightedLoss(loss_args.predicted, loss_args.targets)

\* a call with weight 1.0 on three quantiles whose horizon lies past
\* newer_samples_start, with a positive loss in every channel
C22_Witness ==
    /\ LossReturned /\ newer_samples_weight = 1 /\ Len(quantiles) = 3
    /\ \E h \in 1 .. NForecasts : loss_args.time[n_lags + h] > newer_samples_start
    /\ \A h \in 1 .. NForecasts : \A q \in 1 .. 3 : loss_result.elementwise[h][q] > 0
    /\ loss_result.data > loss_result.elementwise[1][1]

\* the weight of one time step under the configuration, at scale One
WeightAt(t) ==
    get_time_based_sample_weight(newer_samples_weight, newer_samples_start, <<t>>)[1][1]

\* the weight each (horizon step, quantile) entry of the loss was multiplied by
\* is the weight of that step's time
AppliedPerStep ==
    LossReturned =>
        \A h \in 1 .. NForecasts : \A q \in 1 .. Len(quantiles) :
            loss_result.elementwise[h][q]
              = MulWeight(ElementLoss(loss_args.predicted[h][q], loss_args.targets[h]),
                          WeightAt(loss_args.time[n_lags + h]))

\* C24 as stated: with newer_samples_weight > 1 the weight is exactly 1 at
\* every time <= newer_samples_start, moves monotonically from 1 to
\* newer_samples_weight as time goes to 1, and is the same for all quantiles.
C24_Original ==
    (LossReturned /\ newer_samples_weight > 1) =>
        /\ \A t \in TimeVals :
              /\ (t <= newer_samples_start) => WeightAt(t) = One
              /\ (t = TimeUnit) => WeightAt(t) = newer_samples_weight * One
              /\ \A u \in TimeVals : (t <= u) => WeightAt(t) <= WeightAt(u)
        /\ AppliedPerStep

\* 1 / w at scale One, rounded
OneOver(w) == (One + w \div 2) \div w

\* C24 amended: with newer_samples_weight > 1 the weight is exactly
\* 1 / newer_samples_weight at every time <= newer_samples_start, rises
\* monotonically to exactly 1 at time 1, and is the same for all quantiles.
C24_RampToOne ==
    (LossReturned /\ newer_samples_weight > 1) =>
        /\ \A t \in TimeVals :
              /\ (t <= newer_samples_start) => WeightAt(t) = OneOver(newer_samples_weight)
              /\ (t = TimeUnit) => WeightAt(t) = One
              /\ \A u \in TimeVals : (t <= u) => WeightAt(t) <= WeightAt(u)
              /\ (newer_samples_start < t /\ t < TimeUnit) =>
                    /\ WeightAt(t) > OneOver(newer_samples_weight)
                    /\ WeightAt(t) < One
        /\ AppliedPerStep

\* a weighted call on three quantiles: end weight 3, start 0.5, a horizon step
\* halfway up the ramp, whose three channels are each scaled by 2/3
C24_Witness ==
    /\ LossReturned /\ newer_samples_weight = 3 /\ newer_samples_start = TimeUnit \div 2
    /\ Len(quantiles) = 3
    /\ loss_args.time[n_lags + 1] = 9
    /\ Abs(3 * WeightAt(9) - 2 * One) <= 2
    /\ \A q \in 1 .. 3 :
          /\ loss_result.elementwise[1][q] > 0
          /\ Abs(3 * loss_result.elementwise[1][q]
                   - 2 * ElementLoss(loss_args.predicted[1][q], loss_args.targets[1])) <= 3

\* ---------------------------------------------------------------- claim C28
\* progress lies halfway between the two thresholds
AtMidpoint(pr) ==
    2 * pr.num * reg_start_pct.den * reg_full_pct.den
      = pr.den * (reg_start_pct.num * reg_full_pct.den + reg_full_pct.num * reg_start_pct.den)

\* C28: the delay weight is exactly 0 at every progress <= reg_start_pct,
\* exactly 1 at every progress >= reg_full_pct and 0.5 at the midpoint of the
\* two thresholds; _add_batch_regularizations adds a gated term (AR, trend,
\* seasonality, events, regressors) only at progress strictly above
\* reg_start_pct.
C28_DelayWeight ==
    (reg_result.status # "not called") =>
        /\ FracLE(progress, reg_start_pct) => get_reg_delay_weight(progress) = 0
        /\ FracLE(reg_full_pct, progress) => get_reg_delay_weight(progress) = FullWeight
        /\ AtMidpoint(progress) => 2 * get_reg_delay_weight(progress) = FullWeight
        /\ (Returned /\ \E n \in GatedTermNames : reg_terms[n] # 0) =>
              FracLT(reg_start_pct, progress)
        /\ (reg_result.status = "raised") => FracLT(reg_start_pct, progress)

\* a call at the midpoint, where the weight is 0.5, that added every gated term
C28_Witness ==
    /\ Returned /\ AtMidpoint(progress)
    /\ 2 * get_reg_delay_weight(progress) = FullWeight
    /\ \A n \in GatedTermNames : reg_terms[n] > 0

\* ---------------------------------------------------------------- claim C27
\* C27: after any sequence of training steps the training progress lies in
\* [0, 1]; each training step sets it before it computes the loss, so a
\* training step never finds it unset and the regularization of its loss is
\* gated by the progress of that very step.
C27_ProgressInUnitInterval ==
    /\ train_progress # None =>
          /\ 0 <= train_progress[1].num
          /\ train_progress[1].num <= train_progress[1].den
    /\ step.kind = "train" =>
          /\ train_progress # None
          /\ ~step.raised
          /\ (reg_enabled /\ ~finding_lr) =>
                (step.reg_loss > 0 <=> FracLT(reg_start_pct, train_progress[1]))

\* the last training step of the schedule has run with regularization in
\* force: progress is one step short of 1 and its loss was regularized
C27_Witness ==
    /\ step.kind = "train" /\ train_progress # None
    /\ train_progress[1].num = train_progress[1].den - 1
    /\ reg_enabled /\ ~finding_lr
    /\ step.reg_loss > 0

\* ---------------------------------------------------------------- claim C26
\* C26: an interpretability-mode call that returns has in its decomposition
\* the entry "trend", the trend output on the horizon slice; and whenever it
\* evaluated the seasonality, one entry season_<name> for each configured
\* periodic term, computed on the horizon slice, whatever the trend
\* configuration is.
C26_Original ==
    (fwd_done /\ ~fwd_raised /\ include_components) =>
        /\ returned_components # None
        /\ "trend" \in DOMAIN returned_components[1]
        /\ returned_components[1]["trend"]
              = HorizonSlice(components["trend"], n_lags, n_lags + NForecasts)
        /\ ("seasonalities" \in unstacked /\ "seasonalities" \in DOMAIN components) =>
              LET entries == SeasonEntries(fwd_inp.season, n_lags, n_lags + NForecasts,
                                           Len(quantiles), season_periods)
              IN \A k \in DOMAIN entries :
                    /\ k \in DOMAIN returned_components[1]
                    /\ returned_components[1][k] = entries[k]
                    /\ Len(returned_components[1][k]) = NForecasts

\* an interpretability-mode call on a model without trend configuration that
\* evaluated an additive seasonality on a schema holding its range: the
\* decomposition has the trend entry and no seasonality entry
C26_Witness ==
    /\ fwd_done /\ ~fwd_raised /\ include_components
    /\ IsNoneCfg(config_trend) /\ season_mode = "additive"
    /\ "seasonalities" \in components_stacker[mode]
    /\ "seasonalities" \in unstacked /\ "seasonalities" \in DOMAIN components
    /\ returned_components # None
    /\ "trend" \in DOMAIN returned_components[1]
    /\ \A name \in SeasonNames :
          compute_fourier(fwd_inp.season, name, n_lags, n_lags + NForecasts, Len(quantiles))
            # Zeros(NForecasts, Len(quantiles))
    /\ DOMAIN returned_components[1] \cap {"season_yearly", "season_weekly"} = {}

====
